---------------------------- MODULE Spec2Model ----------------------------
(***************************************************************************)
(* A model of trpc-svelte-query-adapter (src/@lib/src/index.ts): the key   *)
(* deriver getArrayQueryKey, the procedures and utilsProcedures dispatch   *)
(* tables, the subscription wrapper and the server prefetch procedures.    *)
(*                                                                         *)
(* The module holds ten specifications over one list of variables; each    *)
(* leaves the variables it does not model untouched:                       *)
(*   SpecKey   the pure key derivation (getArrayQueryKey, getQueryKey)     *)
(*   Spec      the utils proxy's data utilities and the reactive bindings  *)
(*   SpecBulk  the utils proxy's bulk utilities (invalidate, refetch, ...) *)
(*   SpecSub   one createSubscription call site and its teardown           *)
(*   SpecSrv   createServerQuery / createServerInfiniteQuery /             *)
(*             createServerQueries on the server                           *)
(*   SpecRes   the server call followed by invocations of its factory      *)
(*   SpecProxy property reads on the wrapper's proxy and the utils proxy   *)
(*   SpecTrpc  the application's trpc() helper (src/@app)                  *)
(*   SpecDs    one procedure call site and the data source it builds       *)
(*   SpecMut   createMutation and the mutation utilities of the utils proxy*)
(***************************************************************************)
EXTENDS Naturals, Sequences, FiniteSets, TLC

VARIABLES
    kcall,      \* SpecKey: the key-derivation call made last (function and arguments)
    kret,       \* SpecKey: what that call returned
    cache,      \* Spec: the cache engine's entries, queryKey -> [data, invalidated, error, fetching, source]
    binding,    \* Spec: what the component's reactive primitive handed the cache engine (observed queries)
    last,       \* Spec: the utils or binding operation run last, with what it handed the engine
    sub,        \* SpecSub: the createSubscription call site (closure variables and registration)
    inflight,   \* SpecSub: events the RPC client has emitted and not yet delivered to the wrapper
    delivered,  \* SpecSub: every event delivered so far, with whether the caller's handler ran
    scache,     \* SpecSrv: the cache engine's entries on the server, queryKey -> state
    srv,        \* SpecSrv: the createServer* call in progress (position, descriptors, prefetches)
    fac,        \* SpecRes: the factory the call returned (closure variables) and the binding it made
    px,         \* SpecProxy: the proxy the caller holds, the property read or call made last, and its result
    tc,         \* SpecTrpc: the module of the trpc() helper (environment, browserClient) and its calls
    ds,         \* SpecDs: one procedure call site, the options its binding observes, the data source's last run
    mu          \* SpecMut: the cache engine's mutation defaults and running mutations, and the utility run last

keyVars == <<kcall, kret>>
utilVars == <<cache, binding, last>>
subVars == <<sub, inflight, delivered>>
srvVars == <<scache, srv, fac>>
proxyVars == <<px, tc>>
callVars == <<ds, mu>>
vars == <<kcall, kret, cache, binding, last, sub, inflight, delivered, scache, srv, fac, px, tc,
          ds, mu>>

----------------------------------------------------------------------------
(***************************************************************************)
(* JavaScript values.  A value is a record tagged with its typeof; the     *)
(* payload field is named after the tag so that values of different types  *)
(* are comparable.  An object is its own-property map.                     *)
(***************************************************************************)
Undefined == [t |-> "undefined"]
Null == [t |-> "null"]
Num(n) == [t |-> "number", n |-> n]
Str(s) == [t |-> "string", s |-> s]
Bool(b) == [t |-> "boolean", b |-> b]
Obj(f) == [t |-> "object", o |-> f]
Infinity == [t |-> "number", inf |-> TRUE]
Fn(name) == [t |-> "function", name |-> name]

\* !v
Falsy(v) == v \in {Undefined, Null, Num(0), Str(""), Bool(FALSE)}
Truthy(v) == ~Falsy(v)

\* a ?? b
Nullish(a, b) == IF a \in {Undefined, Null} THEN b ELSE a

\* o?.f for an options object o (undefined when o is nullish or lacks f)
OptGet(o, f) ==
    IF o.t = "object" /\ f \in DOMAIN o.o THEN o.o[f] ELSE Undefined

\* All sequences over S of length at most n
SeqsUpTo(S, n) == UNION {[1..m -> S] : m \in 0..n}

\* p is a prefix of q
IsPrefix(p, q) == Len(p) <= Len(q) /\ \A i \in 1..Len(p) : p[i] = q[i]

----------------------------------------------------------------------------
(***************************************************************************)
(* Key Deriver: getArrayQueryKey.                                          *)
(* The queryKey argument is a string or an array; a string is modelled as  *)
(* the sequence of its characters, an array as the sequence of its         *)
(* segments.                                                               *)
(***************************************************************************)
ArrayArg(p) == [k |-> "array", v |-> p]
StringArg(cs) == [k |-> "string", v |-> cs]

\* String.prototype.split('.') on a string given as its characters
RECURSIVE SplitFrom(_, _, _)
SplitFrom(cs, i, cur) ==
    IF i > Len(cs) THEN <<cur>>
    ELSE IF cs[i] = "." THEN <<cur>> \o SplitFrom(cs, i + 1, "")
    ELSE SplitFrom(cs, i + 1, cur \o cs[i])

Split(cs) == SplitFrom(cs, 1, "")

\* Array.prototype.join('.')
RECURSIVE Join(_)
Join(p) ==
    IF Len(p) = 0 THEN ""
    ELSE IF Len(p) = 1 THEN p[1]
    ELSE p[1] \o "." \o Join(Tail(p))

\* typeof queryKey === 'string' ? (queryKey === '' ? [] : queryKey.split('.')) : queryKey
ArrayPath(queryKey) ==
    IF queryKey.k = "string"
    THEN IF queryKey.v = <<>> THEN <<>> ELSE Split(queryKey.v)
    ELSE queryKey.v

\* Mutant of Descriptor: the input is kept by truthiness (input && { input }).
Descriptor_TruthyInput(input, type) ==
    [f \in (IF Truthy(input) THEN {"input"} ELSE {})
            \cup (IF Truthy(type) /\ type # Str("any") THEN {"type"} ELSE {})
        |-> IF f = "input" THEN input ELSE type]

\* { ...(typeof input !== 'undefined' && { input }), ...(type && type !== 'any' && { type }) }
Descriptor(input, type) ==
    [f \in (IF input # Undefined THEN {"input"} ELSE {})
            \cup (IF Truthy(type) /\ type # Str("any") THEN {"type"} ELSE {})
        |-> IF f = "input" THEN input ELSE type]

\* Mutant of getArrayQueryKey: the path-only key is [arrayPath] also for the
\* empty path ([[]] instead of []).
getArrayQueryKey_NestedEmpty(queryKey, input, type) ==
    LET arrayPath == ArrayPath(queryKey) IN
    IF Falsy(input) /\ (Falsy(type) \/ type = Str("any"))
    THEN <<arrayPath>>
    ELSE <<arrayPath, Descriptor(input, type)>>

getArrayQueryKey(queryKey, input, type) ==
    LET arrayPath == ArrayPath(queryKey) IN
    IF Falsy(input) /\ (Falsy(type) \/ type = Str("any"))
    THEN IF Len(arrayPath) # 0 THEN <<arrayPath>> ELSE <<>>
    ELSE <<arrayPath, Descriptor(input, type)>>

\* Mutant of ProcQueryKey: an omitted type defaults to 'query'.
ProcQueryKey_DefaultQuery(path, input, opts) ==
    getArrayQueryKey(ArrayArg(path), input, Nullish(opts, Str("query")))

\* procedures[Procedure.queryKey]: (input, opts) => getArrayQueryKey(path, input, opts)
ProcQueryKey(path, input, opts) == getArrayQueryKey(ArrayArg(path), input, opts)

----------------------------------------------------------------------------
(***************************************************************************)
(* SpecKey: the key derivation applied to every bounded argument triple.   *)
(***************************************************************************)
MaxPathLen == 2
MaxStrLen == 3

Segments == {"users", "getById", "greeting"}
Chars == {"a", "."}

KeyPaths == SeqsUpTo(Segments, MaxPathLen)
KeyStrings == SeqsUpTo(Chars, MaxStrLen)

KeyInputs ==
    { Undefined, Null, Num(0), Num(1), Num(2), Str(""), Str("world"),
      Bool(FALSE), Bool(TRUE),
      Obj([filter |-> Str("x")]), Obj([filter |-> Str("y")]),
      Obj([cursor |-> Num(5), filter |-> Str("x")]),
      Obj([direction |-> Str("forward"), filter |-> Str("x")]) }

KeyTypes == {Undefined, Str("query"), Str("infinite"), Str("any")}

\* The calls SpecKey starts from: getArrayQueryKey(queryKey, input, type) called
\* directly, and proxy.<path>.getQueryKey(input, type?) called through the proxy.
KeyCalls ==
    [fn : {"getArrayQueryKey"},
     qk : {ArrayArg(p) : p \in KeyPaths} \cup {StringArg(s) : s \in KeyStrings},
     input : KeyInputs, type : KeyTypes, done : {FALSE}]
    \cup
    [fn : {"getQueryKey"},
     qk : {ArrayArg(p) : p \in KeyPaths},
     input : KeyInputs, type : KeyTypes, done : {FALSE}]

InitKeyVars ==
    /\ kcall \in KeyCalls
    /\ kret = <<>>

\* getArrayQueryKey(queryKey, input, type) runs and returns
CallGetArrayQueryKey ==
    /\ kcall.fn = "getArrayQueryKey"
    /\ ~kcall.done
    /\ kret' = getArrayQueryKey(kcall.qk, kcall.input, kcall.type)
    /\ kcall' = [kcall EXCEPT !.done = TRUE]
    /\ UNCHANGED <<utilVars, subVars, srvVars, proxyVars, callVars>>

\* proxy.<path>.getQueryKey(input, type?) runs and returns
CallGetQueryKey ==
    /\ kcall.fn = "getQueryKey"
    /\ ~kcall.done
    /\ kret' = ProcQueryKey(kcall.qk.v, kcall.input, kcall.type)
    /\ kcall' = [kcall EXCEPT !.done = TRUE]
    /\ UNCHANGED <<utilVars, subVars, srvVars, proxyVars, callVars>>

NextKey ==
    \/ CallGetArrayQueryKey
    \/ CallGetQueryKey

----------------------------------------------------------------------------
(***************************************************************************)
(* Claims settled under SpecKey.                                           *)
(***************************************************************************)

\* C1: with no input and access type "any" the derived key is [P] for every
\* non-empty path P and the empty sequence [] (not [[]]) for the empty path.
C1_KeyOmission ==
    (/\ kcall.fn = "getArrayQueryKey"
     /\ kcall.done
     /\ kcall.qk.k = "array"
     /\ kcall.input = Undefined
     /\ kcall.type = Str("any"))
    => kret = (IF kcall.qk.v # <<>> THEN <<kcall.qk.v>> ELSE <<>>)

\* C1 witness: the key derived for the empty path is the empty sequence.
C1_Witness ==
    /\ kcall.fn = "getArrayQueryKey"
    /\ kcall.done
    /\ kcall.qk = ArrayArg(<<>>)
    /\ kcall.input = Undefined
    /\ kcall.type = Str("any")
    /\ kret = <<>>

\* C2: for access type "query" or "infinite" the key is [P, descriptor] with
\* descriptor.type the access type and descriptor.input present exactly when
\* the input is not undefined; for 0, "" and false the descriptor embeds the
\* input and the key differs from the key derived for undefined.
C2_TypedKey ==
    (/\ kcall.fn = "getArrayQueryKey"
     /\ kcall.done
     /\ kcall.qk.k = "array"
     /\ kcall.type \in {Str("query"), Str("infinite")})
    => /\ Len(kret) = 2
       /\ kret[1] = kcall.qk.v
       /\ "type" \in DOMAIN kret[2]
       /\ kret[2].type = kcall.type
       /\ ("input" \in DOMAIN kret[2]) <=> (kcall.input # Undefined)
       /\ kcall.input \in {Num(0), Str(""), Bool(FALSE)}
            => /\ kret[2].input = kcall.input
               /\ kret # <<kcall.qk.v, [type |-> kcall.type]>>

\* C2 witness: a query key derived for the falsy input 0 carries input 0.
C2_Witness ==
    /\ kcall.fn = "getArrayQueryKey"
    /\ kcall.done
    /\ kcall.qk = ArrayArg(<<"users", "getById">>)
    /\ kcall.input = Num(0)
    /\ kcall.type = Str("query")
    /\ kret = <<<<"users", "getById">>, [input |-> Num(0), type |-> Str("query")]>>

\* C3 (as claimed): a defined input is never treated as absent, also for
\* access type "any": for v in {0, "", false} the key is [P, {input: v}].
C3_FalsyInputKeptForAny ==
    (/\ kcall.fn = "getArrayQueryKey"
     /\ kcall.done
     /\ kcall.qk.k = "array"
     /\ kcall.input \in {Num(0), Str(""), Bool(FALSE)}
     /\ kcall.type = Str("any"))
    => kret = <<kcall.qk.v, [input |-> kcall.input]>>

\* the own properties of an object other than cursor and direction
StripPagination(v) ==
    IF v.t = "object"
    THEN Obj([f \in DOMAIN v.o \ {"cursor", "direction"} |-> v.o[f]])
    ELSE v

\* C4 (as claimed): for access type "infinite" the key derived for an object
\* input is the key derived for that input without its cursor and direction
\* fields.
C4_PaginationStripped ==
    (/\ kcall.fn = "getArrayQueryKey"
     /\ kcall.done
     /\ kcall.type = Str("infinite")
     /\ kcall.input.t = "object")
    => kret = <<ArrayPath(kcall.qk),
                [input |-> StripPagination(kcall.input), type |-> Str("infinite")]>>

\* C6 (as claimed): getQueryKey called with only an input returns
\* [P, {input, type: "query"}].
C6_QueryKeyTypedQuery ==
    (/\ kcall.fn = "getQueryKey"
     /\ kcall.done
     /\ kcall.input # Undefined
     /\ kcall.type = Undefined)
    => kret = <<kcall.qk.v, [input |-> kcall.input, type |-> Str("query")]>>

\* C6 (amended): getQueryKey called at path P with only a truthy input returns
\* [P, {input}] with no type (the type defaults to "any"); the type is in the
\* key exactly when "query" or "infinite" is passed as the second argument.
C6_QueryKeyUntyped ==
    (/\ kcall.fn = "getQueryKey"
     /\ kcall.done
     /\ Truthy(kcall.input))
    => /\ kcall.type \in {Undefined, Str("any")}
            => kret = <<kcall.qk.v, [input |-> kcall.input]>>
       /\ kcall.type \in {Str("query"), Str("infinite")}
            => kret = <<kcall.qk.v, [input |-> kcall.input, type |-> kcall.type]>>

\* C6 witness: greeting.getQueryKey("world") has returned [["greeting"], {input: "world"}].
C6_Witness ==
    /\ kcall.fn = "getQueryKey"
    /\ kcall.done
    /\ kcall.qk = ArrayArg(<<"greeting">>)
    /\ kcall.input = Str("world")
    /\ kcall.type = Undefined
    /\ kret = <<<<"greeting">>, [input |-> Str("world")]>>

----------------------------------------------------------------------------
(***************************************************************************)
(* The collaborators of the adapter.  The RPC client and the cache engine  *)
(* are opaque to the adapter; they are modelled by what section 6 of the   *)
(* specification says of them.                                             *)
(***************************************************************************)

\* An array value (InfiniteData.pages, InfiniteData.pageParams)
Arr(a) == [t |-> "array", a |-> a]

\* client.query(path, input): a deterministic server whose answer names the
\* path and the input it was asked with.
RpcQuery(path, input) == Obj([path |-> Str(path), input |-> input])

\* The name of the property that holds element i (counted from 1) of a string
\* or an array: "0", "1", ...
IndexName(i) == ToString(i - 1)

\* { ...v }: the own enumerable properties of v.  An object gives its
\* properties, a string its characters and an array its elements under their
\* indices, a store its members set, update and subscribe; undefined, null,
\* numbers, booleans and functions give none.
SpreadProps(v) ==
    IF v.t = "object" THEN v.o
    ELSE IF v.t = "string"
    THEN [f \in {IndexName(i) : i \in 1..Len(v.s)} |->
             LET i == CHOOSE j \in 1..Len(v.s) : IndexName(j) = f IN Str(SubSeq(v.s, i, i))]
    ELSE IF v.t = "array"
    THEN [f \in {IndexName(i) : i \in 1..Len(v.a)} |->
             v.a[CHOOSE j \in 1..Len(v.a) : IndexName(j) = f]]
    ELSE IF v.t = "store"
    THEN [f \in {"set", "update", "subscribe"} |-> Fn(f)]
    ELSE [f \in {} |-> Undefined]

\* { ...input, cursor: c }: the own enumerable properties of input with the
\* property cursor set to c
SpreadWithCursor(input, c) ==
    LET own == SpreadProps(input) IN
    Obj([f \in DOMAIN own \cup {"cursor"} |-> IF f = "cursor" THEN c ELSE own[f]])

\* A data source (queryFn) is the record of what it will ask the RPC client.
\*   kind "query":          client.query(path, input)
\*   kind "utilsInfinite":  client.query(path, { ...input, cursor: pageParam })
\*   kind "infinite":       client.query(path, { ...input, cursor: pageParam ?? initialCursor })
\* RunQueryFn is the data the engine stores after running it for pageParam.
RunQueryFn(fn, pageParam) ==
    IF fn.kind = "query" THEN RpcQuery(fn.path, fn.input)
    ELSE LET cursor == IF fn.kind = "infinite"
                       THEN Nullish(pageParam, fn.initialCursor)
                       ELSE pageParam
         IN  Obj([pages |-> Arr(<<RpcQuery(fn.path, SpreadWithCursor(fn.input, cursor))>>),
                  pageParams |-> Arr(<<pageParam>>)])

\* partialDeepEqual(a, b) of the cache engine on input values: equal, or both
\* objects and every property of b partially equal in a.
PartialValue(a, b) ==
    IF a.t = "object" /\ b.t = "object"
    THEN \A f \in DOMAIN b.o : f \in DOMAIN a.o /\ a.o[f] = b.o[f]
    ELSE a = b

\* partialMatchKey(key, filterKey) of the cache engine: every element of the
\* filter key partially equals the element of the key at its index.
PartialMatchKey(key, filterKey) ==
    /\ Len(filterKey) <= Len(key)
    /\ Len(filterKey) >= 1 => IsPrefix(filterKey[1], key[1])
    /\ Len(filterKey) >= 2 =>
         \A f \in DOMAIN filterKey[2] :
            /\ f \in DOMAIN key[2]
            /\ PartialValue(key[2][f], filterKey[2][f])

\* queryClient.getQueryData(key)
EngineGet(c, key) == IF key \in DOMAIN c THEN c[key].data ELSE Undefined

\* An entry of the cache: its data, whether it is marked stale, whether its
\* last fetch failed, whether a fetch is in flight for it, and the data source
\* with the page parameter the engine last started for it (none: <<>>).
NewEntry == [data |-> Undefined, invalidated |-> FALSE, error |-> FALSE,
             fetching |-> FALSE, source |-> <<>>]
EngineEntry(c, key) == IF key \in DOMAIN c THEN c[key] ELSE NewEntry

\* The entry of key holds data: a successful fetch, or queryClient.setQueryData(key, data).
\* A fetch in flight for the key stays in flight.
EnginePut(c, key, data) ==
    [k \in DOMAIN c \cup {key} |->
        IF k = key
        THEN [EngineEntry(c, key) EXCEPT !.data = data, !.invalidated = FALSE, !.error = FALSE]
        ELSE c[k]]

\* A fetch for key failed: the entry keeps its data and is in the error state
EngineFail(c, key) ==
    [k \in DOMAIN c \cup {key} |->
        IF k = key THEN [EngineEntry(c, key) EXCEPT !.error = TRUE, !.fetching = FALSE]
        ELSE c[k]]

\* An observed query is fetched when its entry has no data or is marked stale
EngineIsStale(c, key) ==
    IF key \in DOMAIN c
    THEN c[key].data = Undefined \/ c[key].invalidated
    ELSE TRUE

\* A fetch is in flight for key
EngineIsFetching(c, key) == key \in DOMAIN c /\ c[key].fetching

\* The keys of the entries a filter { queryKey } selects
EngineMatch(c, filterKey) == {k \in DOMAIN c : PartialMatchKey(k, filterKey)}

\* queryClient.invalidateQueries({ queryKey }): every selected entry is marked stale
EngineInvalidate(c, filterKey) ==
    [k \in DOMAIN c |->
        IF PartialMatchKey(k, filterKey) THEN [c[k] EXCEPT !.invalidated = TRUE] ELSE c[k]]

\* queryClient.resetQueries({ queryKey }): every selected entry is back in its
\* initial state, and a fetch in flight for it is dropped
EngineReset(c, filterKey) ==
    [k \in DOMAIN c |->
        IF PartialMatchKey(k, filterKey)
        THEN [NewEntry EXCEPT !.source = c[k].source] ELSE c[k]]

\* queryClient.refetchQueries({ queryKey }): the engine starts a fetch for
\* every selected entry that has a data source
EngineRefetch(c, filterKey) ==
    [k \in DOMAIN c |->
        IF PartialMatchKey(k, filterKey) /\ c[k].source # <<>>
        THEN [c[k] EXCEPT !.fetching = TRUE] ELSE c[k]]

\* queryClient.cancelQueries({ queryKey }): the fetch in flight for a selected
\* entry is dropped and the entry is as it was before the fetch started
EngineCancel(c, filterKey) ==
    [k \in DOMAIN c |->
        IF PartialMatchKey(k, filterKey) THEN [c[k] EXCEPT !.fetching = FALSE] ELSE c[k]]

\* The engine starts a fetch for options.queryKey (fetchQuery, prefetchQuery,
\* fetchInfiniteQuery, prefetchInfiniteQuery with the default staleTime 0, or
\* an observer): it calls the data source, whose promise is pending.  A fetch
\* already in flight for the key is joined.
EngineStart(c, options) ==
    IF EngineIsFetching(c, options.queryKey) THEN c
    ELSE [k \in DOMAIN c \cup {options.queryKey} |->
             IF k = options.queryKey
             THEN [EngineEntry(c, k) EXCEPT
                       !.fetching = TRUE,
                       !.source = <<[queryFn |-> options.queryFn,
                                     pageParam |-> options.initialPageParam]>>]
             ELSE c[k]]

\* The promise of the data source of key is fulfilled: its data is stored
EngineSettle(c, key) ==
    [EnginePut(c, key, RunQueryFn(c[key].source[1].queryFn, c[key].source[1].pageParam))
        EXCEPT ![key].fetching = FALSE]

\* A fetch of options from its start to the stored answer
EngineFetch(c, options) == EngineSettle(EngineStart(c, options), options.queryKey)

\* queryClient.ensureQueryData(options): the cached data when there is some, a
\* started fetch otherwise
EngineEnsure(c, options) ==
    IF EngineGet(c, options.queryKey) # Undefined THEN c ELSE EngineStart(c, options)

----------------------------------------------------------------------------
(***************************************************************************)
(* utilsProcedures: what each utility hands the cache engine for the path  *)
(* the utils proxy has accumulated.                                        *)
(***************************************************************************)
QueryFn(path, input) == [kind |-> "query", path |-> Join(path), input |-> input]
UtilsInfiniteFn(path, input) == [kind |-> "utilsInfinite", path |-> Join(path), input |-> input]

\* [Util.Query.fetch]
UtilsFetchOptions(path, input, opts) ==
    [queryKey |-> getArrayQueryKey(ArrayArg(path), input, Str("query")),
     queryFn |-> QueryFn(path, input),
     initialPageParam |-> Undefined]

\* [Util.Query.prefetch]
UtilsPrefetchOptions(path, input, opts) ==
    [queryKey |-> getArrayQueryKey(ArrayArg(path), input, Str("query")),
     queryFn |-> QueryFn(path, input),
     initialPageParam |-> Undefined]

\* [Util.Query.ensureData]
UtilsEnsureDataOptions(path, input, opts) ==
    [queryKey |-> getArrayQueryKey(ArrayArg(path), input, Str("query")),
     queryFn |-> QueryFn(path, input),
     initialPageParam |-> Undefined]

\* [Util.Query.fetchInfinite]
UtilsFetchInfiniteOptions(path, input, opts) ==
    [queryKey |-> getArrayQueryKey(ArrayArg(path), input, Str("infinite")),
     queryFn |-> UtilsInfiniteFn(path, input),
     initialPageParam |-> OptGet(opts, "initialPageParam")]

\* [Util.Query.prefetchInfinite]
UtilsPrefetchInfiniteOptions(path, input, opts) ==
    [queryKey |-> getArrayQueryKey(ArrayArg(path), input, Str("infinite")),
     queryFn |-> UtilsInfiniteFn(path, input),
     initialPageParam |-> OptGet(opts, "initialPageParam")]

\* [Util.Query.invalidate]
\* Mutant of UtilsInvalidateKey: the filter key carries the 'query' type.
UtilsInvalidateKey_Query(path, input) == getArrayQueryKey(ArrayArg(path), input, Str("query"))

UtilsInvalidateKey(path, input) == getArrayQueryKey(ArrayArg(path), input, Str("any"))

\* [Util.Query.refetch]
UtilsRefetchKey(path, input) == getArrayQueryKey(ArrayArg(path), input, Str("any"))

\* [Util.Query.cancel]
UtilsCancelKey(path, input) == getArrayQueryKey(ArrayArg(path), input, Str("any"))

\* [Util.Query.reset]
UtilsResetKey(path, input) == getArrayQueryKey(ArrayArg(path), input, Str("any"))

\* [Util.Query.setData]
\* Mutant of UtilsSetDataKey: the key is derived with type 'any'.
UtilsSetDataKey_Any(path, input) == getArrayQueryKey(ArrayArg(path), input, Str("any"))

UtilsSetDataKey(path, input) == getArrayQueryKey(ArrayArg(path), input, Str("query"))

\* [Util.Query.setInfiniteData]
UtilsSetInfiniteDataKey(path, input) == getArrayQueryKey(ArrayArg(path), input, Str("infinite"))

\* [Util.Query.getData]
UtilsGetDataKey(path, input) == getArrayQueryKey(ArrayArg(path), input, Str("query"))

\* [Util.Query.getInfiniteData]
UtilsGetInfiniteDataKey(path, input) == getArrayQueryKey(ArrayArg(path), input, Str("infinite"))

(***************************************************************************)
(* Store detection: isSvelteStore, blankStore and the value a derived      *)
(* store's callback takes for an argument.                                 *)
(***************************************************************************)
\* typeof v
TypeOf(v) == IF v.t \in {"null", "array", "store"} THEN "object" ELSE v.t

\* A svelte store holding v: an object whose subscribe member is a function.
Writable(v) == [t |-> "store", v |-> v]

\* get(store)
Get(store) == store.v

\* isSvelteStore(obj): typeof obj === 'object' && 'subscribe' in obj &&
\* typeof obj.subscribe === 'function'.  The in operator throws a TypeError on
\* null, whose typeof is 'object'.
isSvelteStore(obj) ==
    IF TypeOf(obj) # "object" THEN "false"
    ELSE IF obj = Null THEN "TypeError"
    ELSE IF obj.t = "store" THEN "true"
    ELSE IF obj.t = "object" /\ "subscribe" \in DOMAIN obj.o
            /\ TypeOf(obj.o.subscribe) = "function" THEN "true"
    ELSE "false"

\* blank, isBlank and what a subscriber of blankStore or of a store is run with
Blank == [t |-> "symbol", s |-> "blank"]
isBlank(val) == val = Blank
StoreOrBlank(arg) == IF isSvelteStore(arg) = "true" THEN Get(arg) ELSE Blank

\* Mutant of NewValue: the argument is used as it was passed, store or not.
NewValue_Raw(storeValue, v) == v

\* !isBlank($v) ? $v : v
NewValue(storeValue, v) == IF ~isBlank(storeValue) THEN storeValue ELSE v

(***************************************************************************)
(* procedures: the options the reactive primitives hand the cache engine,  *)
(* or what the call throws before it reaches the engine.  When input or    *)
(* opts is a store the options are the value the derived store holds.      *)
(***************************************************************************)
\* what a call that threw gives in place of options
Thrown(error) == [thrown |-> error]
IsThrown(r) == "thrown" \in DOMAIN r
ErrorValue(error) == [t |-> "error", s |-> error]

\* [Procedure.query]: createQuery({ ...opts, queryKey, queryFn }), or
\* createQuery(derived([input, opts], ...)); isSvelteStore(opts) and
\* isSvelteStore(input) are evaluated first and throw on null
CreateQueryOptions(path, input, opts) ==
    IF isSvelteStore(opts) = "TypeError" \/ isSvelteStore(input) = "TypeError"
    THEN Thrown("TypeError")
    ELSE LET newInput == NewValue(StoreOrBlank(input), input) IN
         [queryKey |-> getArrayQueryKey(ArrayArg(path), newInput, Str("query")),
          queryFn |-> QueryFn(path, newInput),
          initialPageParam |-> Undefined]

\* [Procedure.infiniteQuery]: createInfiniteQuery({ ...opts, initialPageParam,
\* queryKey, queryFn }), or createInfiniteQuery(derived([input, opts], ...)),
\* which sets no initialPageParam of its own
CreateInfiniteQueryOptions(path, input, opts) ==
    IF isSvelteStore(opts) = "TypeError" \/ isSvelteStore(input) = "TypeError"
    THEN Thrown("TypeError")
    ELSE LET plain == isSvelteStore(input) = "false" /\ isSvelteStore(opts) = "false"
             newInput == NewValue(StoreOrBlank(input), input)
             newOpts == NewValue(StoreOrBlank(opts), opts)
         IN  [queryKey |-> getArrayQueryKey(ArrayArg(path), newInput, Str("infinite")),
              queryFn |-> [kind |-> "infinite", path |-> Join(path), input |-> newInput,
                           initialCursor |-> OptGet(newOpts, "initialCursor")],
              initialPageParam |-> IF plain THEN Nullish(OptGet(opts, "initialCursor"), Null)
                                   ELSE OptGet(newOpts, "initialPageParam")]

\* createQueriesProxy apply trap: t.<path>(input, opts) gives { ...opts, queryKey, queryFn }
QueriesProxyApply(path, input, opts) ==
    [queryKey |-> getArrayQueryKey(ArrayArg(path), input, Str("query")),
     queryFn |-> QueryFn(path, input),
     initialPageParam |-> Undefined,
     ssr |-> OptGet(opts, "ssr"),
     staleTime |-> OptGet(opts, "staleTime")]

----------------------------------------------------------------------------
(***************************************************************************)
(* Spec: one component using the utils proxy and one reactive primitive    *)
(* over a shared cache engine.  A utility that fetches returns a pending   *)
(* promise: the engine has called the data source, and the RPC client's    *)
(* answer is stored in a later step (FetchSettle), so other operations may *)
(* fall between the call and the answer.                                   *)
(***************************************************************************)
DataPaths == {<<"users", "getById">>}
DataInputs == {Num(1), Num(2)}
\* the inputs of fetchInfinite / prefetchInfinite calls
PageInputs == {Num(1)}
\* the inputs of createQuery / createInfiniteQuery calls
BindInputs == DataInputs \cup {Null}
BulkPaths == {<<>>, <<"users">>, <<"users", "getById">>, <<"greeting">>}
BulkInputs == {Undefined, Num(0), Num(1)}
SetValues == {Str("v")}
UtilOpts == {Undefined}
QueryBatches ==
    { <<[path |-> <<"users", "getById">>, input |-> Num(1)]>>,
      <<[path |-> <<"users", "getById">>, input |-> Num(2)],
        [path |-> <<"users", "getById">>, input |-> Num(1)]>> }

NoBinding == [kind |-> "none"]

InitUtilVars ==
    /\ cache = <<>>
    /\ binding = NoBinding
    /\ last = [op |-> "none"]

\* What an operation leaves in last: its name, the path and input it was called
\* with, the key it handed the engine, the value it wrote or returned, and the
\* keys of the entries the engine selected for it.
Did(op, path, input, key, value, matched) ==
    [op |-> op, path |-> path, input |-> input, key |-> key,
     value |-> value, matched |-> matched]

\* The number of fetches in flight is capped: a utility or observer starts a
\* fetch for a key only while fewer than MaxInFlight other keys are fetching.
MaxInFlight == 1
InFlight(c) == {k \in DOMAIN c : c[k].fetching}
MayStart(c, key) == key \in InFlight(c) \/ Cardinality(InFlight(c)) < MaxInFlight

\* what a utility that fetches returns: a promise, pending while the fetch is
\* in flight
PendingPromise == [t |-> "promise", state |-> "pending"]
ResolvedPromise(v) == [t |-> "promise", state |-> "fulfilled", value |-> v]

\* utils.<path>.fetch(input, opts)
UtilsFetch ==
    \E path \in DataPaths, input \in DataInputs, opts \in UtilOpts :
        LET options == UtilsFetchOptions(path, input, opts) IN
        /\ MayStart(cache, options.queryKey)
        /\ cache' = EngineStart(cache, options)
        /\ last' = Did("fetch", path, input, options.queryKey, PendingPromise, {})
        /\ UNCHANGED <<binding, keyVars, subVars, srvVars, proxyVars, callVars>>

\* utils.<path>.prefetch(input, opts)
UtilsPrefetch ==
    \E path \in DataPaths, input \in DataInputs, opts \in UtilOpts :
        LET options == UtilsPrefetchOptions(path, input, opts) IN
        /\ MayStart(cache, options.queryKey)
        /\ cache' = EngineStart(cache, options)
        /\ last' = Did("prefetch", path, input, options.queryKey, PendingPromise, {})
        /\ UNCHANGED <<binding, keyVars, subVars, srvVars, proxyVars, callVars>>

\* utils.<path>.ensureData(input, opts)
UtilsEnsureData ==
    \E path \in DataPaths, input \in DataInputs, opts \in UtilOpts :
        LET options == UtilsEnsureDataOptions(path, input, opts) IN
        /\ MayStart(cache, options.queryKey)
        /\ cache' = EngineEnsure(cache, options)
        /\ last' = Did("ensureData", path, input, options.queryKey,
                       IF EngineGet(cache, options.queryKey) # Undefined
                       THEN ResolvedPromise(EngineGet(cache, options.queryKey))
                       ELSE PendingPromise, {})
        /\ UNCHANGED <<binding, keyVars, subVars, srvVars, proxyVars, callVars>>

\* utils.<path>.fetchInfinite(input, opts)
UtilsFetchInfinite ==
    \E path \in DataPaths, input \in PageInputs, opts \in UtilOpts :
        LET options == UtilsFetchInfiniteOptions(path, input, opts) IN
        /\ MayStart(cache, options.queryKey)
        /\ cache' = EngineStart(cache, options)
        /\ last' = Did("fetchInfinite", path, input, options.queryKey, PendingPromise, {})
        /\ UNCHANGED <<binding, keyVars, subVars, srvVars, proxyVars, callVars>>

\* utils.<path>.prefetchInfinite(input, opts)
UtilsPrefetchInfinite ==
    \E path \in DataPaths, input \in PageInputs, opts \in UtilOpts :
        LET options == UtilsPrefetchInfiniteOptions(path, input, opts) IN
        /\ MayStart(cache, options.queryKey)
        /\ cache' = EngineStart(cache, options)
        /\ last' = Did("prefetchInfinite", path, input, options.queryKey, PendingPromise, {})
        /\ UNCHANGED <<binding, keyVars, subVars, srvVars, proxyVars, callVars>>

\* utils.<path>.invalidate(input?, filters?, options?)
UtilsInvalidate ==
    \E path \in BulkPaths, input \in BulkInputs :
        LET key == UtilsInvalidateKey(path, input) IN
        /\ cache' = EngineInvalidate(cache, key)
        /\ last' = Did("invalidate", path, input, key, Undefined, EngineMatch(cache, key))
        /\ UNCHANGED <<binding, keyVars, subVars, srvVars, proxyVars, callVars>>

\* utils.<path>.refetch(input?, filters?, options?)
UtilsRefetch ==
    \E path \in BulkPaths, input \in BulkInputs :
        LET key == UtilsRefetchKey(path, input) IN
        /\ Cardinality(InFlight(EngineRefetch(cache, key))) <= MaxInFlight
        /\ cache' = EngineRefetch(cache, key)
        /\ last' = Did("refetch", path, input, key, Undefined, EngineMatch(cache, key))
        /\ UNCHANGED <<binding, keyVars, subVars, srvVars, proxyVars, callVars>>

\* utils.<path>.cancel(input?, filters?, options?)
UtilsCancel ==
    \E path \in BulkPaths, input \in BulkInputs :
        LET key == UtilsCancelKey(path, input) IN
        /\ cache' = EngineCancel(cache, key)
        /\ last' = Did("cancel", path, input, key, Undefined, EngineMatch(cache, key))
        /\ UNCHANGED <<binding, keyVars, subVars, srvVars, proxyVars, callVars>>

\* utils.<path>.reset(input?, filters?, options?)
UtilsReset ==
    \E path \in BulkPaths, input \in BulkInputs :
        LET key == UtilsResetKey(path, input) IN
        /\ cache' = EngineReset(cache, key)
        /\ last' = Did("reset", path, input, key, Undefined, EngineMatch(cache, key))
        /\ UNCHANGED <<binding, keyVars, subVars, srvVars, proxyVars, callVars>>

\* utils.<path>.setData(input, updater, options?)
UtilsSetData ==
    \E path \in DataPaths, input \in DataInputs, v \in SetValues :
        LET key == UtilsSetDataKey(path, input) IN
        /\ cache' = EnginePut(cache, key, v)
        /\ last' = Did("setData", path, input, key, v, {})
        /\ UNCHANGED <<binding, keyVars, subVars, srvVars, proxyVars, callVars>>

\* utils.<path>.setInfiniteData(input, updater, options?)
UtilsSetInfiniteData ==
    \E path \in DataPaths, input \in DataInputs, v \in SetValues :
        LET key == UtilsSetInfiniteDataKey(path, input) IN
        /\ cache' = EnginePut(cache, key, v)
        /\ last' = Did("setInfiniteData", path, input, key, v, {})
        /\ UNCHANGED <<binding, keyVars, subVars, srvVars, proxyVars, callVars>>

\* utils.<path>.getData(input?)
UtilsGetData ==
    \E path \in DataPaths, input \in DataInputs :
        LET key == UtilsGetDataKey(path, input) IN
        /\ last' = Did("getData", path, input, key, EngineGet(cache, key), {})
        /\ UNCHANGED <<cache, binding, keyVars, subVars, srvVars, proxyVars, callVars>>

\* utils.<path>.getInfiniteData(input?)
UtilsGetInfiniteData ==
    \E path \in DataPaths, input \in DataInputs :
        LET key == UtilsGetInfiniteDataKey(path, input) IN
        /\ last' = Did("getInfiniteData", path, input, key, EngineGet(cache, key), {})
        /\ UNCHANGED <<cache, binding, keyVars, subVars, srvVars, proxyVars, callVars>>

\* proxy.<path>.createQuery(input, opts): the engine's createQuery gets the options
CreateQuery ==
    \E path \in DataPaths, input \in BindInputs, opts \in UtilOpts :
        LET options == CreateQueryOptions(path, input, opts) IN
        /\ binding = NoBinding
        /\ IF IsThrown(options)
           THEN /\ binding' = binding
                /\ last' = Did("createQuery", path, input, <<>>, ErrorValue(options.thrown), {})
           ELSE /\ binding' = [kind |-> "createQuery",
                               calls |-> <<[path |-> path, input |-> input]>>,
                               queries |-> <<options>>]
                /\ last' = Did("createQuery", path, input, options.queryKey, Undefined, {})
        /\ UNCHANGED <<cache, keyVars, subVars, srvVars, proxyVars, callVars>>

\* proxy.<path>.createInfiniteQuery(input, opts)
CreateInfiniteQuery ==
    \E path \in DataPaths, input \in BindInputs, opts \in UtilOpts :
        LET options == CreateInfiniteQueryOptions(path, input, opts) IN
        /\ binding = NoBinding
        /\ IF IsThrown(options)
           THEN /\ binding' = binding
                /\ last' = Did("createInfiniteQuery", path, input, <<>>, ErrorValue(options.thrown), {})
           ELSE /\ binding' = [kind |-> "createInfiniteQuery",
                               calls |-> <<[path |-> path, input |-> input]>>,
                               queries |-> <<options>>]
                /\ last' = Did("createInfiniteQuery", path, input, options.queryKey, Undefined, {})
        /\ UNCHANGED <<cache, keyVars, subVars, srvVars, proxyVars, callVars>>

\* proxy.createQueries((t) => [t.<path>(input, opts), ...]) at the root: the engine's
\* createQueries gets one options object per builder call
CreateQueries ==
    \E batch \in QueryBatches :
        /\ binding = NoBinding
        /\ binding' = [kind |-> "createQueries",
                       calls |-> batch,
                       queries |-> [i \in 1..Len(batch) |->
                                       QueriesProxyApply(batch[i].path, batch[i].input, Undefined)]]
        /\ last' = Did("createQueries", <<>>, Undefined, <<>>, Undefined, {})
        /\ UNCHANGED <<cache, keyVars, subVars, srvVars, proxyVars, callVars>>

\* The cache engine starts a fetch for an observed query whose entry has no
\* data or is stale.
ObserverFetch ==
    \E i \in 1..(IF binding.kind = "none" THEN 0 ELSE Len(binding.queries)) :
        LET options == binding.queries[i] IN
        /\ EngineIsStale(cache, options.queryKey)
        /\ ~EngineIsFetching(cache, options.queryKey)
        /\ MayStart(cache, options.queryKey)
        /\ cache' = EngineStart(cache, options)
        /\ last' = Did("observerFetch", <<>>, Undefined, options.queryKey, Undefined, {})
        /\ UNCHANGED <<binding, keyVars, subVars, srvVars, proxyVars, callVars>>

\* The RPC client answers a fetch in flight: the promise the data source
\* returned is fulfilled and the engine stores the data under the key.
FetchSettle ==
    \E key \in DOMAIN cache :
        /\ cache[key].fetching
        /\ cache' = EngineSettle(cache, key)
        /\ last' = Did("fetchSettle", <<>>, Undefined, key, EngineGet(cache', key), {})
        /\ UNCHANGED <<binding, keyVars, subVars, srvVars, proxyVars, callVars>>

\* The component is destroyed: its observers leave the engine.
Unmount ==
    /\ binding # NoBinding
    /\ binding' = NoBinding
    /\ last' = Did("unmount", <<>>, Undefined, <<>>, Undefined, {})
    /\ UNCHANGED <<cache, keyVars, subVars, srvVars, proxyVars, callVars>>

Next ==
    \/ UtilsFetch
    \/ UtilsPrefetch
    \/ UtilsEnsureData
    \/ UtilsFetchInfinite
    \/ UtilsPrefetchInfinite
    \/ UtilsSetData
    \/ UtilsSetInfiniteData
    \/ UtilsGetData
    \/ UtilsGetInfiniteData
    \/ CreateQuery
    \/ CreateInfiniteQuery
    \/ CreateQueries
    \/ ObserverFetch
    \/ FetchSettle
    \/ Unmount

----------------------------------------------------------------------------
(***************************************************************************)
(* SpecSub: one createSubscription call site.  The RPC client may emit     *)
(* onStarted / onData / onError events at any time after the subscribe     *)
(* call; an emitted event is in flight until the client calls the wrapper  *)
(* callback the adapter gave it, which may be after the teardown ran.      *)
(***************************************************************************)
MaxEvents == 3
MaxTeardowns == 2

SubPaths == {<<"users", "onUpdate">>}
SubInputs == {Undefined, Num(1)}
SubEnabled == {Undefined, Bool(TRUE), Bool(FALSE)}
SubEvents == {"onStarted", "onData", "onError"}
\* the handlers the caller's opts define
SubHandlerSets == {{}, {"onData"}, {"onStarted", "onData", "onError"}}

InitSubVars ==
    /\ sub = [pc |-> "idle", path |-> <<>>, input |-> Undefined, enabled |-> Undefined,
              handlers |-> {}, isStopped |-> FALSE,
              subscribeCalls |-> <<>>, handle |-> "none", registered |-> FALSE,
              teardowns |-> 0, unsubCalls |-> 0, threw |-> FALSE, emitted |-> 0]
    /\ inflight = <<>>
    /\ delivered = <<>>

\* Mutant of SubscriptionEnabled: the enabled option is not consulted.
SubscriptionEnabled_Always(enabledOpt) == TRUE

\* const enabled = opts?.enabled ?? true
SubscriptionEnabled(enabledOpt) == Truthy(Nullish(enabledOpt, Bool(TRUE)))

\* proxy.<path>.createSubscription(input, opts)
CreateSubscription ==
    \E path \in SubPaths, input \in SubInputs, enabledOpt \in SubEnabled,
       handlers \in SubHandlerSets :
        /\ sub.pc = "idle"
        /\ IF ~SubscriptionEnabled(enabledOpt)
           THEN sub' = [sub EXCEPT !.pc = "disabled", !.handlers = handlers,
                                   !.path = path, !.input = input, !.enabled = enabledOpt]
           ELSE sub' = [sub EXCEPT !.pc = "subscribed",
                                   !.path = path, !.input = input, !.enabled = enabledOpt,
                                   !.handlers = handlers,
                                   !.isStopped = FALSE,
                                   !.subscribeCalls = Append(@, [path |-> Join(path), input |-> input]),
                                   !.handle = "open",
                                   !.registered = TRUE]
        /\ UNCHANGED <<inflight, delivered, keyVars, utilVars, srvVars, proxyVars, callVars>>

\* The RPC client emits an event for the subscription.
RpcEmit ==
    \E ev \in SubEvents :
        /\ sub.pc = "subscribed"
        /\ sub.emitted < MaxEvents
        /\ inflight' = Append(inflight, [ev |-> ev, early |-> sub.teardowns = 0])
        /\ sub' = [sub EXCEPT !.emitted = @ + 1]
        /\ UNCHANGED <<delivered, keyVars, utilVars, srvVars, proxyVars, callVars>>

\* Mutant of WrapperForwards: the wrapper callback does not look at isStopped.
WrapperForwards_Unguarded(isStopped, handlers, ev) == ev \in handlers

\* onStarted: () => { if (!isStopped) opts?.onStarted?.() } and its two siblings:
\* whether the wrapper callback for ev calls the caller's handler
WrapperForwards(isStopped, handlers, ev) == ~isStopped /\ ev \in handlers

\* The RPC client calls the wrapper callback of the oldest event in flight.
Deliver ==
    /\ inflight # <<>>
    /\ delivered' = Append(delivered,
            [ev |-> Head(inflight).ev,
             early |-> Head(inflight).early,
             afterTeardown |-> sub.teardowns > 0,
             forwarded |-> WrapperForwards(sub.isStopped, sub.handlers, Head(inflight).ev)])
    /\ inflight' = Tail(inflight)
    /\ UNCHANGED <<sub, keyVars, utilVars, srvVars, proxyVars, callVars>>

\* Mutant of TeardownBody: the teardown unsubscribes and leaves isStopped alone.
TeardownBody_NoStop(s) ==
    [s EXCEPT !.teardowns = @ + 1,
              !.unsubCalls = IF s.handle = "none" THEN @ ELSE @ + 1,
              !.threw = @ \/ s.handle = "none",
              !.handle = IF s.handle = "none" THEN "none" ELSE "closed"]

\* onDestroy(() => { isStopped = true; subscription.unsubscribe(); }): the
\* closure after one run of the callback.  subscription.unsubscribe() closes the
\* RPC subscription (and does nothing on one already closed); it throws only
\* when there is no subscription object to call it on.
TeardownBody(s) ==
    [s EXCEPT !.isStopped = TRUE,
              !.teardowns = @ + 1,
              !.unsubCalls = IF s.handle = "none" THEN @ ELSE @ + 1,
              !.threw = @ \/ s.handle = "none",
              !.handle = IF s.handle = "none" THEN "none" ELSE "closed"]

\* The callback registered with onDestroy runs (again, when the component is
\* mounted and destroyed in quick succession).
Teardown ==
    /\ sub.registered
    /\ sub.teardowns < MaxTeardowns
    /\ sub' = TeardownBody(sub)
    /\ UNCHANGED <<inflight, delivered, keyVars, utilVars, srvVars, proxyVars, callVars>>

NextSub ==
    \/ CreateSubscription
    \/ RpcEmit
    \/ Deliver
    \/ Teardown

----------------------------------------------------------------------------
(***************************************************************************)
(* SpecSrv: one call of createServerQuery, createServerInfiniteQuery or    *)
(* createServerQueries on the server, over a cache engine that may already *)
(* hold data.  The call runs up to its await in one step; each prefetch    *)
(* it issued settles in a step of its own, in any order; the call resumes  *)
(* and returns the factory once nothing it awaits is pending.              *)
(***************************************************************************)
MaxBatch == 2

SrvPaths == {<<"users", "getById">>}
SrvInputs == {Num(1), Num(2)}
SrvOpts == {Undefined, Obj([ssr |-> Bool(TRUE)]), Obj([ssr |-> Bool(FALSE)]),
            Obj([staleTime |-> Num(5)])}
\* data an earlier fetch may have left in the cache
SeedValues == {Num(0), Str("v")}
BatchOpts == {Undefined, Obj([ssr |-> Bool(FALSE)]), Obj([staleTime |-> Num(5)])}
SrvBatches ==
    SeqsUpTo([path : SrvPaths, input : SrvInputs, opts : BatchOpts], MaxBatch) \ {<<>>}

\* The closure variables of the call (path, input, opts, queries), and the
\* binding the factory made last: the staleTime store, the options the derived
\* store holds, whether its mount callback has run, every options value it emitted
\* with the phase it was emitted in, and the keys the observer fetched before
\* the mount callback ran.
NoFactory ==
    [pc |-> "none", kind |-> "none", path |-> <<>>, input |-> Undefined, opts |-> Undefined,
     queries |-> <<>>, invocations |-> 0, args |-> <<>>, staleTime |-> Undefined, options |-> <<>>,
     initialData |-> <<>>, mounted |-> FALSE, emitted |-> {}, fetched |-> {}]

InitSrvVars ==
    /\ scache = <<>>
    /\ srv = [pc |-> "idle", kind |-> "none", queries |-> <<>>, ssr |-> <<>>,
              dataAtCall |-> <<>>, prefetch |-> <<>>]
    /\ fac = NoFactory

\* Mutant of ShouldPrefetch: the ssr option is not consulted.
ShouldPrefetch_IgnoreSsr(ssr, data) == Falsy(data)

\* const cacheNotFound = !cache?.state?.data;
\* if (opts?.ssr !== false && cacheNotFound) await queryClient.prefetchQuery(query)
ShouldPrefetch(ssr, data) == ssr # Bool(FALSE) /\ Falsy(data)

\* [Procedure.serverQuery]: the query handed to prefetchQuery
ServerQueryOptions(path, input, opts) ==
    [queryKey |-> getArrayQueryKey(ArrayArg(path), input, Str("query")),
     queryFn |-> QueryFn(path, input),
     initialPageParam |-> Undefined]

\* [Procedure.serverInfiniteQuery]: the query handed to prefetchInfiniteQuery
ServerInfiniteQueryOptions(path, input, opts) ==
    [queryKey |-> getArrayQueryKey(ArrayArg(path), input, Str("infinite")),
     queryFn |-> [kind |-> "infinite", path |-> Join(path), input |-> input,
                  initialCursor |-> OptGet(opts, "initialCursor")],
     initialPageParam |-> Undefined]

\* Mutant of ServerCall: the prefetches are issued one after another, so the
\* call reaches its first await with only the first of them started.
ServerCall_Sequential(kind, queries, ssr) ==
    LET data == [i \in 1..Len(queries) |-> EngineGet(scache, queries[i].queryKey)]
        need == {i \in 1..Len(queries) : ShouldPrefetch(ssr[i], data[i])}
        prefetch == [i \in 1..Len(queries) |->
                        IF i \in need /\ \A j \in need : i <= j THEN "pending" ELSE "none"]
    IN  [pc |-> IF kind = "serverQueries" \/ need # {} THEN "awaiting" ELSE "returned",
         kind |-> kind, queries |-> queries, ssr |-> ssr,
         dataAtCall |-> data, prefetch |-> prefetch]

\* The call up to its await: for each query, the cache lookup and the decision
\* to prefetch.  prefetch[i] is "none" when no prefetch was issued for query i.
\* createServerQuery and createServerInfiniteQuery await only when they issue
\* the prefetch; createServerQueries always awaits Promise.all(...), so its
\* factory is delivered in a later step even when nothing is prefetched.
ServerCall(kind, queries, ssr) ==
    LET data == [i \in 1..Len(queries) |-> EngineGet(scache, queries[i].queryKey)]
        prefetch == [i \in 1..Len(queries) |->
                        IF ShouldPrefetch(ssr[i], data[i]) THEN "pending" ELSE "none"]
    IN  [pc |-> IF kind = "serverQueries" \/ \E i \in 1..Len(queries) : prefetch[i] = "pending"
                THEN "awaiting" ELSE "returned",
         kind |-> kind, queries |-> queries, ssr |-> ssr,
         dataAtCall |-> data, prefetch |-> prefetch]

\* An earlier request left data under a key of the server's cache.
SeedCache ==
    \E path \in SrvPaths, input \in SrvInputs, type \in {Str("query"), Str("infinite")},
       v \in SeedValues :
        /\ srv.pc = "idle"
        /\ scache' = EnginePut(scache, getArrayQueryKey(ArrayArg(path), input, type), v)
        /\ UNCHANGED <<srv, fac, keyVars, utilVars, subVars, proxyVars, callVars>>

\* await proxy.<path>.createServerQuery(input, opts)
CreateServerQuery ==
    \E path \in SrvPaths, input \in SrvInputs, opts \in SrvOpts :
        /\ srv.pc = "idle"
        /\ srv' = ServerCall("serverQuery",
                             <<ServerQueryOptions(path, input, opts)>>,
                             <<OptGet(opts, "ssr")>>)
        /\ fac' = [NoFactory EXCEPT !.kind = srv'.kind, !.path = path,
                                     !.input = input, !.opts = opts]
        /\ UNCHANGED <<scache, keyVars, utilVars, subVars, proxyVars, callVars>>

\* await proxy.<path>.createServerInfiniteQuery(input, opts)
CreateServerInfiniteQuery ==
    \E path \in SrvPaths, input \in SrvInputs, opts \in SrvOpts :
        /\ srv.pc = "idle"
        /\ srv' = ServerCall("serverInfiniteQuery",
                             <<ServerInfiniteQueryOptions(path, input, opts)>>,
                             <<OptGet(opts, "ssr")>>)
        /\ fac' = [NoFactory EXCEPT !.kind = srv'.kind, !.path = path,
                                     !.input = input, !.opts = opts]
        /\ UNCHANGED <<scache, keyVars, utilVars, subVars, proxyVars, callVars>>

\* await proxy.createServerQueries((t) => [t.<path>(input, opts), ...])
CreateServerQueries ==
    \E batch \in SrvBatches :
        LET queries == [i \in 1..Len(batch) |->
                           QueriesProxyApply(batch[i].path, batch[i].input, batch[i].opts)]
        IN  /\ srv.pc = "idle"
            /\ srv' = ServerCall("serverQueries", queries,
                                 [i \in 1..Len(batch) |-> queries[i].ssr])
        /\ fac' = [NoFactory EXCEPT !.kind = srv'.kind, !.queries = queries]
        /\ UNCHANGED <<scache, keyVars, utilVars, subVars, proxyVars, callVars>>

\* A pending prefetch succeeds: the engine stores the answer of the data source.
PrefetchSucceed ==
    \E i \in 1..Len(srv.prefetch) :
        /\ srv.prefetch[i] = "pending"
        /\ scache' = EngineFetch(scache, srv.queries[i])
        /\ srv' = [srv EXCEPT !.prefetch[i] = "done"]
        /\ UNCHANGED <<fac, keyVars, utilVars, subVars, proxyVars, callVars>>

\* A pending prefetch fails: prefetchQuery swallows the error, and the entry is
\* left in the error state.
PrefetchFail ==
    \E i \in 1..Len(srv.prefetch) :
        /\ srv.prefetch[i] = "pending"
        /\ scache' = EngineFail(scache, srv.queries[i].queryKey)
        /\ srv' = [srv EXCEPT !.prefetch[i] = "failed"]
        /\ UNCHANGED <<fac, keyVars, utilVars, subVars, proxyVars, callVars>>

\* Mutant of ServerOutcome: the call rejects when a prefetch failed.
ServerOutcome_Rethrow(prefetch) ==
    IF \E i \in 1..Len(prefetch) : prefetch[i] = "failed" THEN "rejected" ELSE "returned"

\* await queryClient.prefetchQuery(query); return (...args) => ...: the awaited
\* promise resolves whether the fetch succeeded or failed, and nothing is
\* thrown after it, so the call resolves to the factory
ServerOutcome(prefetch) == "returned"

\* Everything the call awaits has settled: it resumes and returns the factory.
ServerReturn ==
    /\ srv.pc = "awaiting"
    /\ \A i \in 1..Len(srv.prefetch) : srv.prefetch[i] # "pending"
    /\ srv' = [srv EXCEPT !.pc = ServerOutcome(srv.prefetch)]
    /\ UNCHANGED <<scache, fac, keyVars, utilVars, subVars, proxyVars, callVars>>

NextSrv ==
    \/ SeedCache
    \/ CreateServerQuery
    \/ CreateServerInfiniteQuery
    \/ CreateServerQueries
    \/ PrefetchSucceed
    \/ PrefetchFail
    \/ ServerReturn

----------------------------------------------------------------------------
(***************************************************************************)
(* SpecRes: the server call followed by the component invoking the factory *)
(* it returned.  Each invocation makes a binding over a fresh staleTime    *)
(* store holding Infinity and registers a mount callback that sets the     *)
(* store to null; the binding's options are re-derived when the store      *)
(* changes.  The observer of the binding fetches when the entry has no     *)
(* data or may be older than the staleTime of the options.                 *)
(***************************************************************************)
MaxInvocations == 2

\* what the component passes as first and second argument of the factory
NewInputs == {Num(2), Fn("inc")}
NewOpts == {Obj([staleTime |-> Num(7)])}
FactoryArgs == {<<>>} \cup {<<i>> : i \in NewInputs} \cup {<<i, o>> : i \in NewInputs, o \in NewOpts}
\* what the component passes as first argument of the createServerQueries factory
QueriesTransforms == {"keep", "replace"}
QueriesFactoryArgs == {<<>>} \cup {<<f>> : f \in QueriesTransforms}

\* Mutant of StaleTimeOption: the staleTime store is not consulted.
StaleTimeOption_CallerOnly(callerStaleTime, staleTime) == callerStaleTime

\* ...newOpts, ..., ...($staleTime && { staleTime: $staleTime })
StaleTimeOption(callerStaleTime, staleTime) ==
    IF Truthy(staleTime) THEN staleTime ELSE callerStaleTime

\* [Procedure.serverQuery] factory: the options the derived store holds
ServerQueryFactoryOptions(path, input, opts, staleTime) ==
    [queryKey |-> getArrayQueryKey(ArrayArg(path), input, Str("query")),
     queryFn |-> QueryFn(path, input),
     initialPageParam |-> Undefined,
     staleTime |-> StaleTimeOption(OptGet(opts, "staleTime"), staleTime)]

\* [Procedure.serverInfiniteQuery] factory: the options the derived store holds
ServerInfiniteQueryFactoryOptions(path, input, opts, staleTime) ==
    [queryKey |-> getArrayQueryKey(ArrayArg(path), input, Str("infinite")),
     queryFn |-> [kind |-> "infinite", path |-> Join(path), input |-> input,
                  initialCursor |-> OptGet(opts, "initialCursor")],
     initialPageParam |-> OptGet(opts, "initialCursor"),
     staleTime |-> StaleTimeOption(OptGet(opts, "staleTime"), staleTime)]

\* [Procedure.serverQueries] factory: newQueries.map((query) => ({ ...query,
\* ...($staleTime && { staleTime: $staleTime }) }))
ServerQueriesFactoryOptions(queries, staleTime) ==
    [i \in 1..Len(queries) |->
        [queries[i] EXCEPT !.staleTime = StaleTimeOption(@, staleTime)]]

\* The options of the binding for the closure variables c and a staleTime store value
FactoryOptions(c, staleTime) ==
    IF c.kind = "serverQuery"
    THEN <<ServerQueryFactoryOptions(c.path, c.input, c.opts, staleTime)>>
    ELSE IF c.kind = "serverInfiniteQuery"
    THEN <<ServerInfiniteQueryFactoryOptions(c.path, c.input, c.opts, staleTime)>>
    ELSE ServerQueriesFactoryOptions(c.queries, staleTime)

\* The staleTime the caller configured for query i of the binding
CallerStaleTime(c, i) ==
    IF c.kind = "serverQueries" THEN c.queries[i].staleTime ELSE OptGet(c.opts, "staleTime")

\* The options values binding number n emits, each with the staleTime the caller
\* configured and the phase it was emitted in
Emissions(c, n, options, mounted) ==
    {[binding |-> n, options |-> options[i], caller |-> CallerStaleTime(c, i),
      mounted |-> mounted] : i \in 1..Len(options)}

\* createQuery / createInfiniteQuery / createQueries over the derived store:
\* the binding right after the factory made it
Bind(c) ==
    LET options == FactoryOptions(c, Infinity) IN
    [c EXCEPT !.pc = "bound",
              !.invocations = @ + 1,
              !.staleTime = Infinity,
              !.options = options,
              !.initialData = [i \in 1..Len(options) |-> EngineGet(scache, options[i].queryKey)],
              !.mounted = FALSE,
              !.emitted = Emissions(c, c.invocations + 1, options, FALSE)]

\* if (args.length > 0) input = args.shift();
NewInput(old, args) == IF Len(args) > 0 THEN args[1] ELSE old

\* if (args.length > 0) opts = args.shift();   (after the first shift)
NewOptions(old, args) == IF Len(args) > 1 THEN args[2] ELSE old

\* factory(...args) of createServerQuery / createServerInfiniteQuery
FactoryInvoke ==
    \E args \in FactoryArgs :
        /\ srv.pc = "returned"
        /\ fac.kind \in {"serverQuery", "serverInfiniteQuery"}
        /\ fac.invocations < MaxInvocations
        /\ fac' = Bind([fac EXCEPT !.args = args,
                                   !.input = NewInput(fac.input, args),
                                   !.opts = NewOptions(fac.opts, args)])
        /\ UNCHANGED <<scache, srv, keyVars, utilVars, subVars, proxyVars, callVars>>

\* The (t, old) => [...] function the component passes, applied to the proxy and
\* the closure's queries
ApplyTransform(f, queries) ==
    IF f = "replace"
    THEN <<QueriesProxyApply(<<"greeting">>, Str("a"), Undefined)>>
    ELSE queries

\* if (args.length > 0) queries = args.shift()(proxy, queries);
NewQueries(old, args) == IF Len(args) > 0 THEN ApplyTransform(args[1], old) ELSE old

\* factory(...args) of createServerQueries
QueriesFactoryInvoke ==
    \E args \in QueriesFactoryArgs :
        /\ srv.pc = "returned"
        /\ fac.kind = "serverQueries"
        /\ fac.invocations < MaxInvocations
        /\ fac' = Bind([fac EXCEPT !.args = args,
                                   !.queries = NewQueries(fac.queries, args)])
        /\ UNCHANGED <<scache, srv, keyVars, utilVars, subVars, proxyVars, callVars>>

\* Mutant of MountedStaleTime: the mount callback leaves Infinity in the store.
MountedStaleTime_Infinity == Infinity

\* staleTime.set(null)
MountedStaleTime == Null

\* onMount(() => { staleTime.set(null); }): the callback the last invocation
\* registered runs, and the derived store emits the options again
Mount ==
    /\ fac.pc = "bound"
    /\ ~fac.mounted
    /\ LET options == FactoryOptions(fac, MountedStaleTime) IN
       fac' = [fac EXCEPT !.staleTime = MountedStaleTime,
                          !.options = options,
                          !.mounted = TRUE,
                          !.emitted = @ \cup Emissions(fac, fac.invocations, options, TRUE)]
    /\ UNCHANGED <<scache, srv, keyVars, utilVars, subVars, proxyVars, callVars>>

\* The observer fetches a query whose entry has no data, is marked stale, or may
\* be older than the staleTime of its options (never, when that is Infinity).
ResumeIsStale(c, options) ==
    EngineIsStale(c, options.queryKey) \/ options.staleTime # Infinity

\* The cache engine runs the data source of a stale query of the binding.
ResumeObserverFetch ==
    \E i \in 1..Len(fac.options) :
        /\ fac.pc = "bound"
        /\ ResumeIsStale(scache, fac.options[i])
        /\ scache' = EngineFetch(scache, fac.options[i])
        /\ fac' = [fac EXCEPT !.fetched = IF fac.mounted THEN @
                                            ELSE @ \cup {fac.options[i].queryKey}]
        /\ UNCHANGED <<srv, keyVars, utilVars, subVars, proxyVars, callVars>>

NextRes ==
    \/ CreateServerQuery
    \/ CreateServerInfiniteQuery
    \/ CreateServerQueries
    \/ PrefetchSucceed
    \/ PrefetchFail
    \/ ServerReturn
    \/ FactoryInvoke
    \/ QueriesFactoryInvoke
    \/ Mount
    \/ ResumeObserverFetch

----------------------------------------------------------------------------
(***************************************************************************)
(* SpecProxy: property reads on the proxy svelteQueryWrapper returns and   *)
(* on the utils proxy.  A read gives a handler bound to the proxy's path,  *)
(* undefined, the client object, or a nested proxy one segment deeper.     *)
(***************************************************************************)
MaxDepth == 2
MaxCalls == 2
\* the keys of the procedures table and of the utilsProcedures table
ProcedureNames ==
    {"createQuery", "createServerQuery", "createInfiniteQuery", "createServerInfiniteQuery",
     "createMutation", "createSubscription", "getQueryKey", "createContext", "createUtils",
     "createQueries", "createServerQueries"}
UtilNames ==
    {"fetch", "prefetch", "fetchInfinite", "prefetchInfinite", "ensureData", "invalidate",
     "refetch", "reset", "cancel", "setData", "getData", "setInfiniteData", "getInfiniteData",
     "setMutationDefaults", "getMutationDefaults", "isMutating"}
RootOnlyNames == {"createContext", "createUtils", "createQueries", "createServerQueries"}

\* property names the caller reads
ProxyKeys == {"users", "getById", "client", "fetch", "invalidate", "createQuery", "getQueryKey",
              "createUtils", "createContext", "createQueries", "createServerQueries"}

\* the objects of the wrapper's construction: the client the caller passed and
\* its __untypedClient
CallerClient == [r |-> "object", id |-> "client"]
InnerClient == [r |-> "object", id |-> "client.__untypedClient"]

ProxyAt(kind, path) == [r |-> "proxy", kind |-> kind, path |-> path]
Handler(name, path) == [r |-> "handler", name |-> name, path |-> path]
NoResult == [r |-> "undefined"]

InitProxyVars ==
    px = [at |-> ProxyAt("root", <<>>), op |-> "none", on |-> ProxyAt("root", <<>>),
          key |-> "", got |-> NoResult, calls |-> <<>>]

\* what svelteQueryWrapper puts in the context as client
ContextClient == InnerClient

\* Mutant of ProcedureEntry: the root-only entries do not look at the path.
ProcedureEntry_AnyPath(key, path) == Handler(key, path)

\* procedures[key]({ client, path, queryClient, abortOnUnmount })
ProcedureEntry(key, path) ==
    IF key \in RootOnlyNames /\ Len(path) # 0 THEN NoResult ELSE Handler(key, path)

\* get trap of the proxy svelteQueryWrapper returns
WrapperGet(path, key) ==
    IF key \in ProcedureNames
    THEN ProcedureEntry(key, path)
    ELSE ProxyAt("root", Append(path, key))

\* get trap of the utils proxy
UtilsProxyGet(path, key) ==
    IF key = "client" THEN ContextClient
    ELSE IF key \in UtilNames THEN Handler(key, path)
    ELSE ProxyAt("utils", Append(path, key))

\* The caller reads property key of the proxy it holds, and holds the nested
\* proxy afterwards when the read gave one.
ProxyGet ==
    \E key \in ProxyKeys :
        LET got == IF px.at.kind = "root"
                   THEN WrapperGet(px.at.path, key)
                   ELSE UtilsProxyGet(px.at.path, key)
        IN  /\ got.r = "proxy" => Len(px.at.path) < MaxDepth
            /\ px' = [at |-> IF got.r = "proxy" THEN got ELSE px.at,
                      op |-> "get", on |-> px.at, key |-> key, got |-> got,
                      calls |-> <<>>]
            /\ UNCHANGED <<tc, keyVars, utilVars, subVars, srvVars, callVars>>

\* createUtilsProxy(ctx): a utils proxy over an empty path
createUtilsProxy == ProxyAt("utils", <<>>)

\* The caller calls the createUtils / createContext handler it just read.
CallCreateUtils ==
    /\ px.got.r = "handler"
    /\ px.got.name \in {"createUtils", "createContext"}    /\ px' = [at |-> createUtilsProxy, op |-> "call", on |-> px.on, key |-> px.got.name,
              got |-> createUtilsProxy, calls |-> <<>>]
    /\ UNCHANGED <<tc, keyVars, utilVars, subVars, srvVars, callVars>>

\* the inputs the caller passes to a handler it holds
CallInputs == {Num(1), Num(2)}
\* the handlers the caller invokes with an input
DispatchNames == {"createQuery", "getQueryKey", "fetch", "invalidate"}

\* Mutant of CapturedPath: every call removes the last segment of the path the
\* handler shares with its proxy.
CapturedPath_Popped(handler, ncalls) ==
    SubSeq(handler.path, 1, IF Len(handler.path) > ncalls THEN Len(handler.path) - ncalls ELSE 0)

\* The path a handler works with at a call that follows ncalls earlier ones:
\* the path of the context the get trap built it with, which no handler and no
\* trap assigns to.
CapturedPath(handler, ncalls) == handler.path

\* the key a handler derives for an input
HandlerKey(name, path, input) ==
    IF name = "createQuery" THEN CreateQueryOptions(path, input, Undefined).queryKey
    ELSE IF name = "getQueryKey" THEN ProcQueryKey(path, input, Undefined)
    ELSE IF name = "fetch" THEN UtilsFetchOptions(path, input, Undefined).queryKey
    ELSE UtilsInvalidateKey(path, input)

\* The caller invokes the handler it read last, once more: const q =
\* t.<path>.createQuery; q(x); q(y)
HandlerCall ==
    \E input \in CallInputs :
        /\ px.got.r = "handler"
        /\ px.got.name \in DispatchNames
        /\ Len(px.calls) < MaxCalls
        /\ px' = [px EXCEPT !.op = "dispatch",
                            !.calls = Append(@, LET path == CapturedPath(px.got, Len(px.calls)) IN
                                                [name |-> px.got.name, path |-> path,
                                                 input |-> input,
                                                 queryKey |-> HandlerKey(px.got.name, path,
                                                                         input)])]
        /\ UNCHANGED <<tc, keyVars, utilVars, subVars, srvVars, callVars>>

NextProxy ==
    \/ ProxyGet
    \/ CallCreateUtils
    \/ HandlerCall

----------------------------------------------------------------------------
(***************************************************************************)
(* SpecTrpc: the application's trpc(init, queryClient) helper.  Its module *)
(* is evaluated in the browser or on the server, with browserClient        *)
(* undefined; every call returns a wrapper instance.                       *)
(***************************************************************************)
MaxTrpcCalls == 3

TrpcInits == {"event1", "event2", "event3"}
TrpcQueryClients == {"qc1", "qc2"}
NoInstance == [id |-> 0]

InitTrpcVars ==
    tc = [env |-> "none", browserClient |-> NoInstance, constructed |-> 0, returned |-> <<>>]

\* The module is evaluated: let browserClient;
TrpcModuleLoad ==
    \E env \in {"browser", "server"} :
        /\ tc.env = "none"
        /\ tc' = [tc EXCEPT !.env = env]
        /\ UNCHANGED <<px, keyVars, utilVars, subVars, srvVars, callVars>>

\* Mutant of TrpcReuses: every call constructs.
TrpcReuses_Never(isBrowser, browserClient) == FALSE

\* if (isBrowser && browserClient) return browserClient;
TrpcReuses(isBrowser, browserClient) == isBrowser /\ browserClient # NoInstance

\* trpc(init, queryClient)
TrpcCall ==
    \E init \in TrpcInits, queryClient \in TrpcQueryClients :
        LET isBrowser == tc.env = "browser"
            client == [id |-> tc.constructed + 1, init |-> init, queryClient |-> queryClient]
        IN  /\ tc.env # "none"
            /\ Len(tc.returned) < MaxTrpcCalls
            /\ IF TrpcReuses(isBrowser, tc.browserClient)
               THEN tc' = [tc EXCEPT !.returned = Append(@, tc.browserClient)]
               ELSE tc' = [tc EXCEPT !.constructed = @ + 1,
                                     !.browserClient = IF isBrowser THEN client ELSE @,
                                     !.returned = Append(@, client)]
            /\ UNCHANGED <<px, keyVars, utilVars, subVars, srvVars, callVars>>

NextTrpc ==
    \/ TrpcModuleLoad
    \/ TrpcCall

----------------------------------------------------------------------------
(***************************************************************************)
(* SpecDs: one call site of createQuery, createInfiniteQuery,              *)
(* createServerQuery, createServerInfiniteQuery, createMutation or of the  *)
(* createQueries builder, with plain or store arguments; the stores may be *)
(* set afterwards, the server factories invoked, and the cache engine runs *)
(* the data source it was handed, which asks the RPC client.               *)
(***************************************************************************)
\* Mutant of ShouldAbortOnUnmount: || in place of ??, so that an explicit false
\* of the call does not override the wrapper's setting.
ShouldAbortOnUnmount_Or(opts, abortOnUnmount) ==
    LET own == OptGet(OptGet(opts, "trpc"), "abortOnUnmount") IN
    IF Truthy(own) THEN own ELSE abortOnUnmount

\* opts?.trpc?.abortOnUnmount ?? abortOnUnmount
ShouldAbortOnUnmount(opts, abortOnUnmount) ==
    Nullish(OptGet(OptGet(opts, "trpc"), "abortOnUnmount"), abortOnUnmount)

\* The signal the cache engine hands a data source
AbortSignal == [t |-> "signal"]

\* { ...(shouldAbortOnUnmount && { signal }) }
ClientRequestOptions(shouldAbortOnUnmount, signal) ==
    Obj([f \in (IF Truthy(shouldAbortOnUnmount) THEN {"signal"} ELSE {}) |-> signal])

\* A data source is the record of its closure: the path string, the input, the
\* initial cursor (paginated sources) and shouldAbortOnUnmount.
QuerySource(path, input, shouldAbortOnUnmount) ==
    [kind |-> "query", path |-> Join(path), input |-> input,
     initialCursor |-> Undefined, shouldAbortOnUnmount |-> shouldAbortOnUnmount]
InfiniteSource(path, input, initialCursor, shouldAbortOnUnmount) ==
    [kind |-> "infinite", path |-> Join(path), input |-> input,
     initialCursor |-> initialCursor, shouldAbortOnUnmount |-> shouldAbortOnUnmount]
MutationSource(path) ==
    [kind |-> "mutation", path |-> Join(path), input |-> Undefined,
     initialCursor |-> Undefined, shouldAbortOnUnmount |-> Undefined]

\* Mutant of SourceCursor: || in place of ??, so that the page parameters 0 and
\* "" give way to the initial cursor.
SourceCursor_Or(pageParam, initialCursor) ==
    IF Truthy(pageParam) THEN pageParam ELSE initialCursor

\* pageParam ?? initialCursor
SourceCursor(pageParam, initialCursor) == Nullish(pageParam, initialCursor)

\* What the data source asks the RPC client when the engine runs it with
\* { pageParam, signal } (queryFn) or with the mutation variables (mutationFn):
\*   client.query(path, input, { signal? })
\*   client.query(path, { ...input, cursor: pageParam ?? initialCursor }, { signal? })
\*   client.mutation(path, data)
SourceRequest(fn, arg, signal) ==
    IF fn.kind = "mutation"
    THEN [method |-> "mutation", path |-> fn.path, input |-> arg, options |-> Undefined]
    ELSE [method |-> "query", path |-> fn.path,
          input |-> IF fn.kind = "query" THEN fn.input
                    ELSE SpreadWithCursor(fn.input, SourceCursor(arg, fn.initialCursor)),
          options |-> ClientRequestOptions(fn.shouldAbortOnUnmount, signal)]

\* Mutant of SourceResult: the data source catches a rejection and resolves
\* with undefined.
SourceResult_Swallow(settled) ==
    IF settled.state = "rejected" THEN [state |-> "fulfilled", value |-> Undefined] ELSE settled

\* The data source returns the promise client.query / client.mutation gave it:
\* its caller sees that promise settle.
SourceResult(settled) == settled

\* [Procedure.query]: the options createQuery is handed, or the current value
\* of the derived store it is handed when input or opts is a store
ProcQueryOptions(path, input, opts, shouldAbortOnUnmount) ==
    IF isSvelteStore(input) # "true" /\ isSvelteStore(opts) # "true"
    THEN [queryKey |-> getArrayQueryKey(ArrayArg(path), input, Str("query")),
          queryFn |-> QuerySource(path, input, shouldAbortOnUnmount),
          initialPageParam |-> Undefined,
          staleTime |-> OptGet(opts, "staleTime")]
    ELSE LET newInput == NewValue(StoreOrBlank(input), input)
             newOpts == NewValue(StoreOrBlank(opts), opts)
         IN  [queryKey |-> getArrayQueryKey(ArrayArg(path), newInput, Str("query")),
              queryFn |-> QuerySource(path, newInput, shouldAbortOnUnmount),
              initialPageParam |-> Undefined,
              staleTime |-> OptGet(newOpts, "staleTime")]

\* [Procedure.infiniteQuery]
ProcInfiniteQueryOptions(path, input, opts, shouldAbortOnUnmount) ==
    IF isSvelteStore(input) # "true" /\ isSvelteStore(opts) # "true"
    THEN [queryKey |-> getArrayQueryKey(ArrayArg(path), input, Str("infinite")),
          queryFn |-> InfiniteSource(path, input, OptGet(opts, "initialCursor"),
                                     shouldAbortOnUnmount),
          initialPageParam |-> Nullish(OptGet(opts, "initialCursor"), Null),
          staleTime |-> OptGet(opts, "staleTime")]
    ELSE LET newInput == NewValue(StoreOrBlank(input), input)
             newOpts == NewValue(StoreOrBlank(opts), opts)
         IN  [queryKey |-> getArrayQueryKey(ArrayArg(path), newInput, Str("infinite")),
              queryFn |-> InfiniteSource(path, newInput, OptGet(newOpts, "initialCursor"),
                                         shouldAbortOnUnmount),
              initialPageParam |-> OptGet(newOpts, "initialPageParam"),
              staleTime |-> OptGet(newOpts, "staleTime")]

\* [Procedure.serverQuery]: the query handed to prefetchQuery
ProcServerQueryPrefetch(path, input, opts, shouldAbortOnUnmount) ==
    [queryKey |-> getArrayQueryKey(ArrayArg(path), input, Str("query")),
     queryFn |-> QuerySource(path, input, shouldAbortOnUnmount),
     initialPageParam |-> Undefined,
     staleTime |-> Undefined]

\* [Procedure.serverQuery]: the current value of the derived store the factory
\* hands createQuery
ProcServerQueryOptions(path, input, opts, shouldAbortOnUnmount, staleTime) ==
    LET newInput == NewValue(StoreOrBlank(input), input)
        newOpts == NewValue(StoreOrBlank(opts), opts)
    IN  [queryKey |-> getArrayQueryKey(ArrayArg(path), newInput, Str("query")),
         queryFn |-> QuerySource(path, newInput, shouldAbortOnUnmount),
         initialPageParam |-> Undefined,
         staleTime |-> StaleTimeOption(OptGet(newOpts, "staleTime"), staleTime)]

\* [Procedure.serverInfiniteQuery]: the query handed to prefetchInfiniteQuery
ProcServerInfiniteQueryPrefetch(path, input, opts, shouldAbortOnUnmount) ==
    [queryKey |-> getArrayQueryKey(ArrayArg(path), input, Str("infinite")),
     queryFn |-> InfiniteSource(path, input, OptGet(opts, "initialCursor"),
                                shouldAbortOnUnmount),
     initialPageParam |-> Undefined,
     staleTime |-> Undefined]

\* [Procedure.serverInfiniteQuery]: the current value of the derived store the
\* factory hands createInfiniteQuery
ProcServerInfiniteQueryOptions(path, input, opts, shouldAbortOnUnmount, staleTime) ==
    LET newInput == NewValue(StoreOrBlank(input), input)
        newOpts == NewValue(StoreOrBlank(opts), opts)
    IN  [queryKey |-> getArrayQueryKey(ArrayArg(path), newInput, Str("infinite")),
         queryFn |-> InfiniteSource(path, newInput, OptGet(newOpts, "initialCursor"),
                                    shouldAbortOnUnmount),
         initialPageParam |-> OptGet(newOpts, "initialCursor"),
         staleTime |-> StaleTimeOption(OptGet(newOpts, "staleTime"), staleTime)]

\* createQueriesProxy apply trap, with the data source's closure
QueriesProxyOptions(path, input, opts, abortOnUnmount) ==
    [queryKey |-> getArrayQueryKey(ArrayArg(path), input, Str("query")),
     queryFn |-> QuerySource(path, input, ShouldAbortOnUnmount(opts, abortOnUnmount)),
     initialPageParam |-> Undefined,
     staleTime |-> OptGet(opts, "staleTime")]

\* the own properties of an options argument ({ ...opts })
OwnProps(v) == SpreadProps(v)

\* the mutation key the adapter uses at a path: [path]
MutationKey(path) == <<path>>

\* Mutant of ProcMutateOptions: the caller's options are spread last.
ProcMutateOptions_CallerLast(path, opts) ==
    LET own == OwnProps(opts)
        mine == [mutationKey |-> MutationKey(path), mutationFn |-> MutationSource(path)]
    IN  [f \in DOMAIN own \cup DOMAIN mine |-> IF f \in DOMAIN own THEN own[f] ELSE mine[f]]

\* [Procedure.mutate]: createMutation({ ...opts, mutationKey: [path], mutationFn })
ProcMutateOptions(path, opts) ==
    LET own == OwnProps(opts)
        mine == [mutationKey |-> MutationKey(path), mutationFn |-> MutationSource(path)]
    IN  [f \in DOMAIN own \cup DOMAIN mine |-> IF f \in DOMAIN mine THEN mine[f] ELSE own[f]]

\* what the callers pass
AbortOpt(b) == Obj([trpc |-> Obj([abortOnUnmount |-> Bool(b)])])
DsPaths == {<<"users", "getById">>}
DsPlainInputs ==
    {Undefined, Null, Num(1), Obj([id |-> Num(1)]), Str("ab"), Arr(<<Num(7)>>)}
StoreInputValues == {Num(1), Num(2)}
DsInputs == DsPlainInputs \cup {Writable(Num(1))}
StoreOptsValues ==
    {AbortOpt(FALSE),
     Obj([trpc |-> Obj([abortOnUnmount |-> Bool(TRUE)]), initialCursor |-> Num(5)])}
DsPlainOpts ==
    {Undefined, Null, AbortOpt(TRUE), AbortOpt(FALSE), Obj([initialCursor |-> Num(7)])}
DsOpts == DsPlainOpts \cup {Writable(AbortOpt(FALSE))}
WrapperAbort == {Undefined, Bool(TRUE), Bool(FALSE)}
DsFactoryArgs ==
    {<<>>, <<Num(2)>>, <<Null>>, <<Writable(Num(1))>>, <<Num(2), AbortOpt(TRUE)>>,
     <<Num(2), Writable(AbortOpt(FALSE))>>}
CallerMutationFn ==
    [kind |-> "caller", path |-> "mine", input |-> Undefined,
     initialCursor |-> Undefined, shouldAbortOnUnmount |-> Undefined]
MutOpts ==
    {Undefined, Obj([retry |-> Num(1)]),
     Obj([mutationKey |-> <<<<"mine">>>>, mutationFn |-> CallerMutationFn])}
\* the page parameters the engine passes, and the variables of a mutate call
RunArgs == {Undefined, Null, Num(0), Str(""), Num(3)}
RpcError == [t |-> "error", s |-> "TRPCClientError"]
\* what the cache holds for the key of a createServer* call when it is made
DsCacheData == {Undefined, Str("v")}

ServerProcs == {"createServerQuery", "createServerInfiniteQuery"}
NoOptions == [none |-> TRUE]
\* ds.run is the last run of the data source the current options hold
NoRun == [state |-> "none"]

InitDsVars ==
    ds = [pc |-> "idle", proc |-> "none", path |-> <<>>, input |-> Undefined,
          opts |-> Undefined, abortOnUnmount |-> Undefined, currentOpts |-> Undefined,
          shouldAbortOnUnmount |-> Undefined, options |-> NoOptions,
          constructed |-> 0, invocations |-> 0, thrown |-> "none", run |-> NoRun]

\* the call site after proc was called with these arguments
Called(proc, path, input, opts, abortOnUnmount) ==
    [ds EXCEPT !.proc = proc, !.path = path, !.input = input, !.opts = opts,
               !.currentOpts = opts, !.abortOnUnmount = abortOnUnmount]

Threw(c, error) == [c EXCEPT !.pc = "threw", !.thrown = error]

\* The options of the binding for the closure variables of the call site: the
\* value the derived store has now.
CurrentOptions(c) ==
    IF c.proc = "createQuery"
    THEN ProcQueryOptions(c.path, c.input, c.opts, c.shouldAbortOnUnmount)
    ELSE IF c.proc = "createInfiniteQuery"
    THEN ProcInfiniteQueryOptions(c.path, c.input, c.opts, c.shouldAbortOnUnmount)
    ELSE IF c.proc = "createServerQuery"
    THEN ProcServerQueryOptions(c.path, c.input, c.opts, c.shouldAbortOnUnmount, Infinity)
    ELSE ProcServerInfiniteQueryOptions(c.path, c.input, c.opts, c.shouldAbortOnUnmount,
                                        Infinity)

\* The body shared by [Procedure.query] and [Procedure.infiniteQuery]: the two
\* isSvelteStore tests, currentOpts, shouldAbortOnUnmount, and the one call of
\* the cache engine's binding constructor.
ReactiveCall(proc, path, input, opts, abortOnUnmount) ==
    LET c == Called(proc, path, input, opts, abortOnUnmount)
        isOptsStore == isSvelteStore(opts)
        isInputStore == isSvelteStore(input)
    IN  IF isOptsStore = "TypeError" \/ isInputStore = "TypeError"
        THEN Threw(c, "TypeError")
        ELSE LET currentOpts == IF isOptsStore = "true" THEN Get(opts) ELSE opts
                 b == [c EXCEPT !.pc = "bound", !.currentOpts = currentOpts,
                                !.shouldAbortOnUnmount =
                                    ShouldAbortOnUnmount(currentOpts, abortOnUnmount),
                                !.constructed = 1]
             IN  [b EXCEPT !.options = CurrentOptions(b)]

\* proxy.<path>.createQuery(input, opts)
ProcQuery ==
    \E path \in DsPaths, input \in DsInputs, opts \in DsOpts, abortOnUnmount \in WrapperAbort :
        /\ ds.pc = "idle"
        /\ ds' = ReactiveCall("createQuery", path, input, opts, abortOnUnmount)
        /\ UNCHANGED <<mu, keyVars, utilVars, subVars, srvVars, proxyVars>>

\* proxy.<path>.createInfiniteQuery(input, opts)
ProcInfiniteQuery ==
    \E path \in DsPaths, input \in DsInputs, opts \in DsOpts, abortOnUnmount \in WrapperAbort :
        /\ ds.pc = "idle"
        /\ ds' = ReactiveCall("createInfiniteQuery", path, input, opts, abortOnUnmount)
        /\ UNCHANGED <<mu, keyVars, utilVars, subVars, srvVars, proxyVars>>

\* The position of a createServer* call after its synchronous part: it awaits
\* the engine's prefetch when it issued one, and has returned the factory
\* otherwise.
ServerCallPc(opts, data) ==
    IF ShouldPrefetch(OptGet(opts, "ssr"), data) THEN "prefetching" ELSE "server"

\* await proxy.<path>.createServerQuery(input, opts): the query whose data
\* source prefetchQuery runs when the cache has no data for its key
ProcServerQuery ==
    \E path \in DsPaths, input \in DsPlainInputs, opts \in DsPlainOpts,
       abortOnUnmount \in WrapperAbort, data \in DsCacheData :
        LET should == ShouldAbortOnUnmount(opts, abortOnUnmount) IN
        /\ ds.pc = "idle"
        /\ ds' = [Called("createServerQuery", path, input, opts, abortOnUnmount) EXCEPT
                      !.pc = ServerCallPc(opts, data), !.shouldAbortOnUnmount = should,
                      !.options = ProcServerQueryPrefetch(path, input, opts, should)]
        /\ UNCHANGED <<mu, keyVars, utilVars, subVars, srvVars, proxyVars>>

\* await proxy.<path>.createServerInfiniteQuery(input, opts)
ProcServerInfiniteQuery ==
    \E path \in DsPaths, input \in DsPlainInputs, opts \in DsPlainOpts,
       abortOnUnmount \in WrapperAbort, data \in DsCacheData :
        LET should == ShouldAbortOnUnmount(opts, abortOnUnmount) IN
        /\ ds.pc = "idle"
        /\ ds' = [Called("createServerInfiniteQuery", path, input, opts, abortOnUnmount) EXCEPT
                      !.pc = ServerCallPc(opts, data), !.shouldAbortOnUnmount = should,
                      !.options = ProcServerInfiniteQueryPrefetch(path, input, opts, should)]
        /\ UNCHANGED <<mu, keyVars, utilVars, subVars, srvVars, proxyVars>>

\* The factory a createServerQuery / createServerInfiniteQuery call returned is
\* invoked: it reassigns input and opts from its arguments, tests opts and
\* input with isSvelteStore, and hands the engine a derived store.  There is
\* a factory once the call has returned (not while it awaits the prefetch); a
\* factory that threw can be invoked again.  isSvelteStore(input) is evaluated
\* in the arguments of derived, before the binding constructor is called.
ServerFactory ==
    \E args \in DsFactoryArgs :
        LET c == [ds EXCEPT !.input = NewInput(ds.input, args),
                            !.opts = NewOptions(ds.opts, args),
                            !.invocations = @ + 1, !.run = NoRun]
            isOptsStore == isSvelteStore(c.opts)
        IN  /\ ds.pc \in {"server", "bound", "threw"}
            /\ ds.proc \in ServerProcs
            /\ ds.invocations < MaxInvocations
            /\ ds' = IF isOptsStore = "TypeError" THEN Threw(c, "TypeError")
                     ELSE LET currentOpts == IF isOptsStore = "true" THEN Get(c.opts)
                                             ELSE c.opts
                              b == [c EXCEPT !.pc = "bound", !.currentOpts = currentOpts,
                                             !.thrown = "none",
                                             !.shouldAbortOnUnmount =
                                                 ShouldAbortOnUnmount(currentOpts,
                                                                      c.abortOnUnmount)]
                          IN  IF isSvelteStore(c.input) = "TypeError"
                              THEN Threw(b, "TypeError")
                              ELSE [b EXCEPT !.constructed = @ + 1,
                                             !.options = CurrentOptions(b)]
            /\ UNCHANGED <<mu, keyVars, utilVars, subVars, srvVars, proxyVars>>

\* t.<path>(input, opts) in the builder given to createQueries or
\* createServerQueries
QueriesProxyCall ==
    \E path \in DsPaths, input \in DsPlainInputs, opts \in DsPlainOpts,
       abortOnUnmount \in WrapperAbort :
        /\ ds.pc = "idle"
        /\ ds' = [Called("createQueries", path, input, opts, abortOnUnmount) EXCEPT
                      !.pc = "built",
                      !.shouldAbortOnUnmount = ShouldAbortOnUnmount(opts, abortOnUnmount),
                      !.options = QueriesProxyOptions(path, input, opts, abortOnUnmount)]
        /\ UNCHANGED <<mu, keyVars, utilVars, subVars, srvVars, proxyVars>>

\* proxy.<path>.createMutation(opts)
ProcMutate ==
    \E path \in DsPaths, opts \in MutOpts :
        /\ ds.pc = "idle"
        /\ ds' = [Called("createMutation", path, Undefined, opts, Undefined) EXCEPT
                      !.pc = "bound", !.constructed = 1,
                      !.options = ProcMutateOptions(path, opts)]
        /\ UNCHANGED <<mu, keyVars, utilVars, subVars, srvVars, proxyVars>>

\* The caller sets the store it passed as input: the derived store's callback
\* runs again when the binding subscribes to it.
InputStoreSet ==
    \E v \in StoreInputValues :
        /\ ds.pc = "bound"
        /\ ds.input.t = "store"
        /\ v # Get(ds.input)
        /\ ds' = LET c == [ds EXCEPT !.input = Writable(v), !.run = NoRun] IN
                 [c EXCEPT !.options = CurrentOptions(c)]
        /\ UNCHANGED <<mu, keyVars, utilVars, subVars, srvVars, proxyVars>>

\* The caller sets the store it passed as opts.
OptsStoreSet ==
    \E v \in StoreOptsValues :
        /\ ds.pc = "bound"
        /\ ds.opts.t = "store"
        /\ v # Get(ds.opts)
        /\ ds' = LET c == [ds EXCEPT !.opts = Writable(v), !.run = NoRun] IN
                 [c EXCEPT !.options = CurrentOptions(c)]
        /\ UNCHANGED <<mu, keyVars, utilVars, subVars, srvVars, proxyVars>>

\* the data source of the options the engine holds
SourceOf(options) ==
    IF "mutationFn" \in DOMAIN options THEN options.mutationFn ELSE options.queryFn

\* The cache engine runs the data source: the RPC client gets the request and
\* its promise is pending.
SourceRun ==
    \E arg \in RunArgs :
        /\ ds.pc \in {"prefetching", "bound", "built"}
        /\ ds.run.state # "pending"
        /\ ds.pc = "prefetching" => (ds.run.state = "none" /\ arg = Undefined)
        /\ ds' = [ds EXCEPT !.run = [state |-> "pending", arg |-> arg,
                                     req |-> SourceRequest(SourceOf(ds.options), arg,
                                                           AbortSignal)]]
        /\ UNCHANGED <<mu, keyVars, utilVars, subVars, srvVars, proxyVars>>

\* The RPC client's promise settles, and with it what the data source returned.
SourceSettle ==
    /\ ds.run.state = "pending"
    /\ \E settled \in {[state |-> "fulfilled",
                         value |-> RpcQuery(ds.run.req.path, ds.run.req.input)],
                        [state |-> "rejected", value |-> RpcError]} :
        /\ ds' = [ds EXCEPT !.run = [state |-> "settled", arg |-> ds.run.arg,
                                     req |-> ds.run.req, rpc |-> settled,
                                     result |-> SourceResult(settled)],
                             !.pc = IF @ = "prefetching" THEN "server" ELSE @]
        /\ UNCHANGED <<mu, keyVars, utilVars, subVars, srvVars, proxyVars>>

NextDs ==
    \/ ProcQuery
    \/ ProcInfiniteQuery
    \/ ProcServerQuery
    \/ ProcServerInfiniteQuery
    \/ ServerFactory
    \/ QueriesProxyCall
    \/ ProcMutate
    \/ InputStoreSet
    \/ OptsStoreSet
    \/ SourceRun
    \/ SourceSettle

----------------------------------------------------------------------------
(***************************************************************************)
(* SpecMut: the mutation utilities of the utils proxy over the cache       *)
(* engine's mutation defaults and running mutations.                       *)
(***************************************************************************)
InitMutVars ==
    mu = [defaults |-> <<>>, op |-> "none", path |-> <<>>, key |-> <<>>,
          engine |-> Undefined, returned |-> Undefined]

\* what the callers pass
MutPaths == {<<"users", "getById">>, <<"users">>}
MutDefaults == {Obj([retry |-> Num(1)]), Fn("withCanonical")}

\* canonicalMutationFn of a setMutationDefaults call:
\* (input) => client.mutation(path.join('.'), input, opts)
CanonicalMutationFn(path) ==
    [kind |-> "canonical", path |-> Join(path), input |-> Undefined,
     initialCursor |-> Undefined, shouldAbortOnUnmount |-> Undefined]

\* typeof opts === 'function' ? opts({ canonicalMutationFn }) : opts, for a
\* caller's function that returns the canonical function as mutationFn
MutationDefaultsArg(path, opts) ==
    IF TypeOf(opts) = "function"
    THEN Obj([mutationFn |-> CanonicalMutationFn(path)])
    ELSE opts

\* the cache engine: defaults registered per mutation key, and the number of
\* running mutations whose key is exactly the given one (the component's
\* mutation runs while its data source is pending)
EngineSetMutationDefaults(defaults, key, options) ==
    [k \in DOMAIN defaults \cup {key} |-> IF k = key THEN options ELSE defaults[k]]
EngineGetMutationDefaults(defaults, key) ==
    IF key \in DOMAIN defaults THEN defaults[key] ELSE Undefined
EngineIsMutating(c, key) ==
    IF c.proc = "createMutation" /\ c.run.state = "pending" /\ c.options.mutationKey = key
    THEN Num(1) ELSE Num(0)

\* [Util.Mutation.setMutationDefaults]
UtilsSetMutationDefaults ==
    \E path \in MutPaths, opts \in MutDefaults :
        LET key == MutationKey(path) IN
        /\ mu' = [defaults |-> EngineSetMutationDefaults(mu.defaults, key,
                                                        MutationDefaultsArg(path, opts)),
                  op |-> "setMutationDefaults", path |-> path, key |-> key,
                  engine |-> Undefined, returned |-> Undefined]
        /\ UNCHANGED <<ds, keyVars, utilVars, subVars, srvVars, proxyVars>>

\* [Util.Mutation.getMutationDefaults]
UtilsGetMutationDefaults ==
    \E path \in MutPaths :
        LET key == MutationKey(path)
            got == EngineGetMutationDefaults(mu.defaults, key)
        IN  /\ mu' = [mu EXCEPT !.op = "getMutationDefaults", !.path = path, !.key = key,
                                !.engine = got, !.returned = got]
            /\ UNCHANGED <<ds, keyVars, utilVars, subVars, srvVars, proxyVars>>

\* [Util.Mutation.isMutating]: the function body calls queryClient.isMutating
\* and has no return statement
UtilsIsMutating ==
    \E path \in MutPaths :
        LET key == MutationKey(path) IN
        /\ mu' = [mu EXCEPT !.op = "isMutating", !.path = path, !.key = key,
                            !.engine = EngineIsMutating(ds, key),
                            !.returned = Undefined]
        /\ UNCHANGED <<ds, keyVars, utilVars, subVars, srvVars, proxyVars>>

NextMut ==
    \/ ProcMutate
    \/ SourceRun
    \/ SourceSettle
    \/ UtilsSetMutationDefaults
    \/ UtilsGetMutationDefaults
    \/ UtilsIsMutating

----------------------------------------------------------------------------
InitKey ==
    /\ InitKeyVars /\ InitUtilVars /\ InitSubVars /\ InitSrvVars /\ InitProxyVars /\ InitTrpcVars
    /\ InitDsVars /\ InitMutVars

SpecKey == InitKey /\ [][NextKey]_vars

Init ==
    /\ kcall = [fn |-> "none"]
    /\ kret = <<>>
    /\ InitUtilVars
    /\ InitSubVars
    /\ InitSrvVars
    /\ InitProxyVars
    /\ InitTrpcVars
    /\ InitDsVars
    /\ InitMutVars

Spec == Init /\ [][Next]_vars

\* SpecBulk: the bulk cache-control utilities over entries that fetches have made
NextBulk ==
    \/ UtilsFetch
    \/ UtilsFetchInfinite
    \/ UtilsInvalidate
    \/ UtilsRefetch
    \/ UtilsCancel
    \/ UtilsReset
    \/ FetchSettle

SpecBulk == Init /\ [][NextBulk]_vars

SpecSub == Init /\ [][NextSub]_vars

SpecSrv == Init /\ [][NextSrv]_vars

SpecRes == Init /\ [][NextRes]_vars

SpecProxy == Init /\ [][NextProxy]_vars

SpecTrpc == Init /\ [][NextTrpc]_vars

SpecDs == Init /\ [][NextDs]_vars

SpecMut == Init /\ [][NextMut]_vars

----------------------------------------------------------------------------
(***************************************************************************)
(* Bulk cache operations (SpecBulk)                                        *)
(***************************************************************************)
BulkOps == {"invalidate", "refetch", "cancel", "reset"}

\* C5: invalidate, refetch, cancel and reset called at path P with no input
\* hand the engine the key [P] ([] at the root); the engine selects with it every
\* entry whose path extends P, whatever its input and type; and after
\* invalidate every such entry is marked stale.
C5_PrefixMatch ==
    (last.op \in BulkOps /\ last.input = Undefined) =>
        /\ last.key = (IF last.path = <<>> THEN <<>> ELSE <<last.path>>)
        /\ last.matched = {k \in DOMAIN cache : IsPrefix(last.path, k[1])}
        /\ last.op = "invalidate" =>
               \A k \in DOMAIN cache : IsPrefix(last.path, k[1]) => cache[k].invalidated

\* Entries for users.getById with inputs 1 and 2 exist, one of them also as an
\* infinite query, and an invalidate at users with no input has just run.
C5_Witness ==
    LET P == <<"users", "getById">>
        K1 == <<P, [input |-> Num(1), type |-> Str("query")]>>
        K2 == <<P, [input |-> Num(2), type |-> Str("query")]>>
        K3 == <<P, [input |-> Num(1), type |-> Str("infinite")]>>
    IN  /\ last.op = "invalidate"
        /\ last.path = <<"users">>
        /\ last.input = Undefined
        /\ {K1, K2, K3} \subseteq DOMAIN cache
        /\ last.matched = DOMAIN cache
        /\ cache[K1].invalidated /\ cache[K2].invalidated /\ cache[K3].invalidated

----------------------------------------------------------------------------
(***************************************************************************)
(* Utilities and bindings (Spec)                                           *)
(***************************************************************************)
QueryUtilOps == {"fetch", "prefetch", "ensureData", "getData", "setData"}
InfiniteUtilOps == {"fetchInfinite", "prefetchInfinite", "getInfiniteData", "setInfiniteData"}

\* C7: a query utility called with the path and input of a createQuery binding,
\* or of a createQueries builder call, uses the key of that binding; an infinite
\* utility called with the path and input of a createInfiniteQuery binding uses
\* the key of that binding; and after setData(input, v) the cached value under
\* the key of the createQuery binding of the same path and input is v.
C7_KeyAgreement ==
    binding.kind # "none" =>
        \A i \in 1..Len(binding.queries) :
            (last.op \in QueryUtilOps \cup InfiniteUtilOps
                /\ last.path = binding.calls[i].path
                /\ last.input = binding.calls[i].input) =>
                /\ (binding.kind \in {"createQuery", "createQueries"} /\ last.op \in QueryUtilOps)
                       => last.key = binding.queries[i].queryKey
                /\ (binding.kind = "createInfiniteQuery" /\ last.op \in InfiniteUtilOps)
                       => last.key = binding.queries[i].queryKey
                /\ (binding.kind \in {"createQuery", "createQueries"} /\ last.op = "setData")
                       => EngineGet(cache, binding.queries[i].queryKey) = last.value

\* setData has just written "v" for the path and input a createQuery binding observes.
C7_Witness ==
    /\ binding.kind = "createQuery"
    /\ last.op = "setData"
    /\ last.path = binding.calls[1].path
    /\ last.input = binding.calls[1].input
    /\ last.value = Str("v")
    /\ EngineGet(cache, binding.queries[1].queryKey) = Str("v")

----------------------------------------------------------------------------
(***************************************************************************)
(* Subscriptions (SpecSub)                                                 *)
(***************************************************************************)
\* C8: an event the RPC client delivers, for which the caller gave a handler,
\* reaches that handler exactly when no teardown had run at delivery, whether
\* or not it was emitted before the teardown; and nothing but the teardown
\* stops the subscription, so an onError delivery leaves it running.
C8_ForwardedIffNotTornDown ==
    /\ \A i \in 1..Len(delivered) :
           delivered[i].ev \in sub.handlers =>
               (delivered[i].forwarded <=> ~delivered[i].afterTeardown)
    /\ sub.teardowns = 0 => (~sub.isStopped /\ sub.unsubCalls = 0)

\* onError then onData were forwarded before the teardown, and an event already
\* in flight when the teardown ran was dropped.
C8_Witness ==
    /\ sub.handlers = {"onStarted", "onData", "onError"}
    /\ Len(delivered) = 3
    /\ delivered[1].ev = "onError" /\ delivered[1].forwarded
    /\ delivered[2].ev = "onData" /\ delivered[2].forwarded
    /\ delivered[3].early /\ delivered[3].afterTeardown /\ ~delivered[3].forwarded

\* C9: however many times the teardown runs it does not throw, and no event
\* delivered after the first run reaches a handler of the caller.
C9_TeardownIdempotent ==
    /\ ~sub.threw
    /\ \A i \in 1..Len(delivered) : delivered[i].afterTeardown => ~delivered[i].forwarded
    /\ sub.teardowns > 0 => sub.isStopped

\* The teardown has run twice and an event the caller has a handler for was
\* delivered after the second run.
C9_Witness ==
    /\ sub.teardowns = 2
    /\ sub.unsubCalls = 2
    /\ ~sub.threw
    /\ \E i \in 1..Len(delivered) :
           /\ delivered[i].afterTeardown
           /\ ~delivered[i].early
           /\ delivered[i].ev \in sub.handlers
           /\ ~delivered[i].forwarded

\* C18: createSubscription with enabled false makes no RPC subscribe call and
\* registers no teardown, so no handler ever runs and nothing is unsubscribed;
\* with enabled true or absent it has made one RPC subscribe call, for the
\* dotted path and the input, when it returns, and each destruction of the
\* component makes one unsubscribe call.
C18_EnabledGate ==
    /\ (sub.pc # "idle" /\ sub.enabled = Bool(FALSE)) =>
           /\ sub.pc = "disabled"
           /\ sub.subscribeCalls = <<>>
           /\ ~sub.registered
           /\ sub.unsubCalls = 0
           /\ delivered = <<>>
    /\ (sub.pc # "idle" /\ sub.enabled \in {Undefined, Bool(TRUE)}) =>
           /\ sub.pc = "subscribed"
           /\ sub.subscribeCalls = <<[path |-> Join(sub.path), input |-> sub.input]>>
           /\ sub.registered
           /\ sub.unsubCalls = sub.teardowns

\* A subscription at users.onUpdate with input 1 and no enabled option, whose
\* component has been destroyed once.
C18_Witness ==
    /\ sub.pc = "subscribed"
    /\ sub.enabled = Undefined
    /\ sub.subscribeCalls = <<[path |-> "users.onUpdate", input |-> Num(1)]>>
    /\ sub.teardowns = 1
    /\ sub.unsubCalls = 1

----------------------------------------------------------------------------
(***************************************************************************)
(* Server-side prefetch (SpecSrv)                                          *)
(***************************************************************************)
\* C10: a server call issues no prefetch for a query whose ssr option is
\* false, whatever the cache held for its key; for a query whose ssr option is
\* absent or true it issues one when the cache held nothing for the key.
C10_SsrOptOut ==
    srv.pc # "idle" =>
        \A i \in 1..Len(srv.queries) :
            /\ srv.ssr[i] = Bool(FALSE) => srv.prefetch[i] = "none"
            /\ (srv.ssr[i] \in {Undefined, Bool(TRUE)} /\ srv.dataAtCall[i] = Undefined)
                   => srv.prefetch[i] # "none"

\* A batch of two on an empty cache: the query with ssr false got no prefetch,
\* the query without the option got one.
C10_Witness ==
    /\ srv.kind = "serverQueries"
    /\ Len(srv.queries) = 2
    /\ srv.ssr[1] = Bool(FALSE) /\ srv.dataAtCall[1] = Undefined /\ srv.prefetch[1] = "none"
    /\ srv.ssr[2] = Undefined /\ srv.dataAtCall[2] = Undefined /\ srv.prefetch[2] = "done"
    /\ srv.pc = "returned"


\* C11: a server call issues no prefetch for a query whose key already had
\* data in the cache, whatever that data is (0, "" and false included).
C11_WarmSkip ==
    srv.pc # "idle" =>
        \A i \in 1..Len(srv.queries) :
            srv.dataAtCall[i] # Undefined => srv.prefetch[i] = "none"

\* C12: when createServerQueries reaches its await, the prefetch of every
\* descriptor that needs one (ssr not false, no cached data) has been started,
\* so none waits for another to settle; and the factory is returned only when
\* none of them is still pending.
C12_BatchConcurrent ==
    (srv.kind = "serverQueries" /\ srv.pc # "idle") =>
        /\ \A i \in 1..Len(srv.queries) :
               (srv.ssr[i] # Bool(FALSE) /\ Falsy(srv.dataAtCall[i]))
                   => srv.prefetch[i] # "none"
        /\ srv.pc = "returned" =>
               \A i \in 1..Len(srv.queries) : srv.prefetch[i] # "pending"

\* A batch of two, both needing a prefetch: the second has settled while the
\* first is still pending, and the call is still waiting.
C12_Witness ==
    /\ srv.kind = "serverQueries"
    /\ Len(srv.queries) = 2
    /\ srv.queries[1].queryKey # srv.queries[2].queryKey
    /\ srv.prefetch[1] = "pending"
    /\ srv.prefetch[2] = "done"
    /\ srv.pc = "awaiting"

\* C19: createServerQuery called with ssr not false while the cache has
\* nothing for the key issues one prefetch, resolves to the factory only once
\* that prefetch has settled, and never rejects; when the prefetch failed the
\* failure is the error state of the cache entry, which has no data.
C19_BlockingPrefetch ==
    (srv.kind = "serverQuery" /\ srv.ssr[1] # Bool(FALSE) /\ srv.dataAtCall[1] = Undefined) =>
        /\ Len(srv.prefetch) = 1
        /\ srv.prefetch[1] # "none"
        /\ srv.pc \in {"awaiting", "returned"}
        /\ srv.pc = "returned" => srv.prefetch[1] \in {"done", "failed"}
        /\ srv.prefetch[1] \in {"pending", "none"} => srv.pc = "awaiting"
        /\ srv.prefetch[1] = "failed" =>
               /\ scache[srv.queries[1].queryKey].error
               /\ EngineGet(scache, srv.queries[1].queryKey) = Undefined
        /\ srv.prefetch[1] = "done" =>
               /\ ~scache[srv.queries[1].queryKey].error
               /\ EngineGet(scache, srv.queries[1].queryKey) # Undefined

\* The prefetch failed and the call has returned the factory.
C19_Witness ==
    /\ srv.kind = "serverQuery"
    /\ srv.ssr[1] = Undefined
    /\ srv.dataAtCall[1] = Undefined
    /\ srv.prefetch[1] = "failed"
    /\ srv.pc = "returned"
    /\ scache[srv.queries[1].queryKey].error

----------------------------------------------------------------------------
(***************************************************************************)
(* Resumed bindings (SpecRes)                                              *)
(***************************************************************************)
\* C13: when the prefetch of createServerQuery succeeded and the factory is
\* then invoked with no arguments, the binding is on the prefetched key, its
\* initial data is the prefetched value, and the observer makes no fetch for
\* it before the mount callback relaxes the staleness window.
C13_ResumeEquivalence ==
    (fac.kind = "serverQuery" /\ fac.pc = "bound" /\ fac.invocations = 1
        /\ fac.args = <<>> /\ srv.prefetch[1] = "done") =>
        /\ fac.options[1].queryKey = srv.queries[1].queryKey
        /\ fac.initialData[1] = RpcQuery(Join(fac.path), fac.input)
        /\ fac.fetched = {}

\* The prefetch for input 1 succeeded, the factory was invoked with no
\* arguments, and the component has mounted without a fetch before that.
C13_Witness ==
    /\ fac.kind = "serverQuery"
    /\ fac.invocations = 1
    /\ fac.args = <<>>
    /\ srv.prefetch[1] = "done"
    /\ fac.initialData[1] = RpcQuery("users.getById", Num(1))
    /\ fac.options[1].queryKey = <<<<"users", "getById">>, [input |-> Num(1), type |-> Str("query")]>>
    /\ fac.mounted
    /\ fac.fetched = {}

\* What the component's updater function returns for the previous input
ApplyUpdater(f, old) == IF f.name = "inc" THEN Num(old.n + 1) ELSE old

\* C14: the first invocation of the factory of createServerQuery or
\* createServerInfiniteQuery with a new input binds to the key and data source
\* of that input; with an updater function it binds to those of the function's
\* result for the input of the server call.
C14_ResumedNewInput ==
    (fac.kind \in {"serverQuery", "serverInfiniteQuery"} /\ fac.pc = "bound"
        /\ fac.invocations = 1 /\ Len(fac.args) > 0) =>
        LET old == srv.queries[1].queryFn.input
            expected == IF fac.args[1].t = "function"
                        THEN ApplyUpdater(fac.args[1], old)
                        ELSE fac.args[1]
            type == IF fac.kind = "serverQuery" THEN Str("query") ELSE Str("infinite")
        IN  /\ fac.options[1].queryKey = getArrayQueryKey(ArrayArg(fac.path), expected, type)
            /\ fac.options[1].queryFn.input = expected

----------------------------------------------------------------------------
(***************************************************************************)
(* Proxies (SpecProxy)                                                     *)
(***************************************************************************)
\* C15: reading createUtils, createContext, createQueries or
\* createServerQueries on the wrapper's proxy gives undefined when the proxy's
\* path is not empty and a handler when it is; calling the createUtils or
\* createContext handler gives a utils proxy over the empty path.
C15_RootOnly ==
    /\ (px.op = "get" /\ px.on.kind = "root" /\ px.key \in RootOnlyNames) =>
           IF px.on.path = <<>>
           THEN px.got = Handler(px.key, <<>>)
           ELSE px.got = NoResult
    /\ (px.op = "call" /\ px.key \in {"createUtils", "createContext"}) =>
           /\ px.on = ProxyAt("root", <<>>)
           /\ px.got = ProxyAt("utils", <<>>)

\* createServerQueries read on the proxy at users.getById gave undefined.
C15_Witness ==
    /\ px.op = "get"
    /\ px.on = ProxyAt("root", <<"users", "getById">>)
    /\ px.key = "createServerQueries"
    /\ px.got = NoResult

\* C16: reading client on the utils proxy, at any depth, gives the client
\* object the caller passed to svelteQueryWrapper.
C16_UtilsClientIsCallerClient ==
    (px.op = "get" /\ px.on.kind = "utils" /\ px.key = "client") => px.got = CallerClient

----------------------------------------------------------------------------
(***************************************************************************)
(* The trpc() helper (SpecTrpc)                                            *)
(***************************************************************************)
\* C17: in the browser every call returns the instance the first call
\* constructed, from the arguments of the first call, and nothing else is
\* constructed; on the server every call constructs an instance of its own and
\* browserClient stays unset.
C17_BrowserSingleton ==
    /\ tc.env = "browser" =>
           /\ tc.constructed <= 1
           /\ \A i \in 1..Len(tc.returned) : tc.returned[i] = tc.returned[1]
           /\ Len(tc.returned) > 0 => (tc.browserClient = tc.returned[1] /\ tc.constructed = 1)
    /\ tc.env = "server" =>
           /\ tc.browserClient = NoInstance
           /\ tc.constructed = Len(tc.returned)
           /\ \A i \in 1..Len(tc.returned) : tc.returned[i].id = i

\* Three calls in the browser, the later ones with other arguments than the first.
C17_Witness ==
    /\ tc.env = "browser"
    /\ Len(tc.returned) = 3
    /\ tc.returned[3] = [id |-> 1, init |-> "event1", queryClient |-> "qc1"]
    /\ tc.constructed = 1

\* C20: every options value a resumed binding emits before its mount callback
\* has run has staleTime Infinity; every one it emits afterwards has the
\* staleTime the caller configured, or none; and once the callback has run the
\* binding's staleTime store no longer holds Infinity.
C20_TwoPhaseStaleness ==
    /\ \A e \in fac.emitted :
           /\ ~e.mounted => e.options.staleTime = Infinity
           /\ e.mounted => e.options.staleTime = e.caller
    /\ fac.pc = "bound" =>
           /\ ~fac.mounted => fac.staleTime = Infinity
           /\ fac.mounted => (fac.staleTime = Null
                              /\ \A i \in 1..Len(fac.options) : fac.options[i].staleTime # Infinity)

\* A binding of createServerQuery whose caller configured staleTime 5 has
\* emitted Infinity before mount and 5 after it.
C20_Witness ==
    /\ fac.kind = "serverQuery"
    /\ fac.mounted
    /\ \E e \in fac.emitted : ~e.mounted /\ e.caller = Num(5) /\ e.options.staleTime = Infinity
    /\ \E e \in fac.emitted : e.mounted /\ e.caller = Num(5) /\ e.options.staleTime = Num(5)
    /\ fac.options[1].staleTime = Num(5)

----------------------------------------------------------------------------
(***************************************************************************)
(* Data sources (SpecDs)                                                   *)
(***************************************************************************)
\* the abortOnUnmount in force for a call: the call's own opts.trpc.abortOnUnmount
\* when it is defined, the wrapper's otherwise
EffectiveAbortOnUnmount(opts, abortOnUnmount) ==
    IF opts.t = "object" /\ "trpc" \in DOMAIN opts.o
       /\ "abortOnUnmount" \in DOMAIN opts.o.trpc.o
    THEN opts.o.trpc.o.abortOnUnmount
    ELSE abortOnUnmount

\* C21: whenever the data source built by createQuery, createInfiniteQuery, a
\* createServer* procedure or the createQueries builder has asked the RPC
\* client, the request options carry the engine's abort signal if and only if
\* the effective abortOnUnmount (the call's opts.trpc.abortOnUnmount when
\* defined, an explicit false included, the wrapper's otherwise) is true.
C21_SignalForwarding ==
    (ds.run.state # "none" /\ ds.proc # "createMutation") =>
        LET effective == EffectiveAbortOnUnmount(ds.currentOpts, ds.abortOnUnmount) IN
        /\ ds.run.req.method = "query"
        /\ IF effective = Bool(TRUE)
           THEN ds.run.req.options = Obj([signal |-> AbortSignal])
           ELSE ds.run.req.options = Obj([f \in {} |-> AbortSignal])

\* A createInfiniteQuery call with trpc.abortOnUnmount false on a wrapper
\* constructed with abortOnUnmount true asked the RPC client without a signal.
C21_Witness ==
    /\ ds.proc = "createInfiniteQuery"
    /\ ds.opts = AbortOpt(FALSE)
    /\ ds.abortOnUnmount = Bool(TRUE)
    /\ ds.run.state = "settled"
    /\ "signal" \notin DOMAIN ds.run.req.options.o

\* the value of an argument now: what the store holds when it is a store
CurrentValue(arg) == IF arg.t = "store" THEN arg.v ELSE arg

\* C22: whenever the data source of createInfiniteQuery or of
\* createServerInfiniteQuery (prefetch or factory) has asked the RPC client
\* for a page, the input of the request is { ...input, cursor } with cursor
\* equal to pageParam when pageParam is neither null nor undefined (0 and ""
\* included) and to the initialCursor of the options otherwise.
C22_PaginatedCursor ==
    (ds.run.state # "none" /\ ds.proc \in {"createInfiniteQuery", "createServerInfiniteQuery"}) =>
        LET input == CurrentValue(ds.input)
            initialCursor == OptGet(CurrentValue(ds.opts), "initialCursor")
            cursor == IF ds.run.arg \notin {Null, Undefined} THEN ds.run.arg
                      ELSE initialCursor
        IN  /\ ds.run.req.method = "query"
            /\ ds.run.req.path = Join(ds.path)
            /\ ds.run.req.input.t = "object"
            /\ DOMAIN ds.run.req.input.o = DOMAIN SpreadProps(input) \cup {"cursor"}
            /\ ds.run.req.input.o.cursor = cursor
            /\ \A f \in DOMAIN SpreadProps(input) \ {"cursor"} :
                   ds.run.req.input.o[f] = SpreadProps(input)[f]

\* A page of createInfiniteQuery({ id: 1 }, { initialCursor: 7 }) was fetched
\* with pageParam 0: the request carries cursor 0 and the properties of input.
C22_Witness ==
    /\ ds.proc = "createInfiniteQuery"
    /\ ds.input = Obj([id |-> Num(1)])
    /\ ds.opts = Obj([initialCursor |-> Num(7)])
    /\ ds.run.state = "settled"
    /\ ds.run.arg = Num(0)
    /\ ds.run.req.input = Obj([id |-> Num(1), cursor |-> Num(0)])

----------------------------------------------------------------------------
(***************************************************************************)
(* Mutations (SpecMut)                                                     *)
(***************************************************************************)
MutationUtilOps == {"setMutationDefaults", "getMutationDefaults", "isMutating"}

\* C23: the options createMutation hands the engine at path P carry the
\* mutation key [P] whatever options the caller passed (a mutationKey or
\* mutationFn among them) and whatever variables the mutation is run with; the
\* data source asks client.mutation(P joined by '.', variables); and
\* setMutationDefaults, getMutationDefaults and isMutating at P hand the
\* engine the key [P].
C23_MutationKey ==
    /\ ds.proc = "createMutation" =>
           /\ ds.options.mutationKey = <<ds.path>>
           /\ ds.options.mutationFn.kind = "mutation"
           /\ ds.run.state # "none" =>
                  /\ ds.run.req.method = "mutation"
                  /\ ds.run.req.path = Join(ds.path)
                  /\ ds.run.req.input = ds.run.arg
    /\ mu.op \in MutationUtilOps => mu.key = <<mu.path>>

\* createMutation was called with the caller's own mutationKey and mutationFn,
\* the mutation is running, and isMutating at the same path asked the engine
\* about the key of the binding.
C23_Witness ==
    /\ ds.proc = "createMutation"
    /\ "mutationKey" \in DOMAIN OwnProps(ds.opts)
    /\ ds.run.state = "pending"
    /\ ds.run.req = [method |-> "mutation", path |-> "users.getById", input |-> Num(3),
                     options |-> Undefined]
    /\ mu.op = "isMutating"
    /\ mu.key = ds.options.mutationKey

\* C27: isMutating at a path returns the number the engine's isMutating
\* reports for the exact mutation key [path].
C27_IsMutatingReturnsCount ==
    mu.op = "isMutating" => (mu.key = <<mu.path>> /\ mu.returned = mu.engine)

----------------------------------------------------------------------------
(***************************************************************************)
(* Descent and dispatch (SpecProxy)                                        *)
(***************************************************************************)
\* the names a proxy of a kind does not navigate
ReservedNames(kind) == IF kind = "root" THEN ProcedureNames ELSE UtilNames \cup {"client"}

\* the key a dispatched handler must have derived for its path and input
ExpectedHandlerKey(name, path, input) ==
    IF name \in {"createQuery", "fetch"}
    THEN <<path, [input |-> input, type |-> Str("query")]>>
    ELSE <<path, [input |-> input]>>

\* what every state of a descent and of the dispatches that follow it shows
C24_Descent ==
    /\ (px.op = "get" /\ px.key \notin ReservedNames(px.on.kind)) =>
           /\ px.got = ProxyAt(px.on.kind, px.on.path \o <<px.key>>)
           /\ px.at = px.got
    /\ \A i \in 1..Len(px.calls) :
           /\ px.calls[i].name = px.key
           /\ px.calls[i].path = px.on.path
           /\ px.calls[i].queryKey =
                  ExpectedHandlerKey(px.key, px.on.path, px.calls[i].input)

\* C24: reading a non-reserved property on a proxy at path P gives a proxy of
\* the same kind at P followed by that name, and the read leaves the cache
\* engine, the RPC client and the bindings as they were; every invocation of
\* one terminal reference is dispatched to the handler of the name that was
\* read, with the path of the proxy it was read on.
C24_LazyDescentImmutablePath ==
    /\ []C24_Descent
    /\ [][px'.op = "get" =>
             UNCHANGED <<cache, binding, last, sub, inflight, delivered, scache, srv, fac,
                         ds, mu>>]_vars

\* The createQuery reference read on the proxy at users.getById was invoked
\* twice with different inputs.
C24_Witness ==
    /\ px.op = "dispatch"
    /\ px.on = ProxyAt("root", <<"users", "getById">>)
    /\ px.key = "createQuery"
    /\ Len(px.calls) = 2
    /\ px.calls[1].input # px.calls[2].input

\* C25: when the input or the opts of a createQuery / createInfiniteQuery call
\* is a store, the engine's binding constructor has been called exactly once,
\* and at every moment (after every set of either store) the options the
\* binding observes carry the key derived from the path, the value the input
\* store holds now and the type, and a data source that asks client.query
\* with that value.
C25_ReactiveInput ==
    (/\ ds.proc \in {"createQuery", "createInfiniteQuery"}
     /\ ds.pc = "bound"
     /\ (ds.input.t = "store" \/ ds.opts.t = "store")) =>
        LET input == CurrentValue(ds.input)
            type == IF ds.proc = "createQuery" THEN Str("query") ELSE Str("infinite")
        IN  /\ ds.constructed = 1
            /\ ds.options.queryKey = getArrayQueryKey(ArrayArg(ds.path), input, type)
            /\ ds.options.queryFn.input = input
            /\ ds.run.state # "none" =>
                  /\ ds.run.req.method = "query"
                  /\ ds.run.req.path = Join(ds.path)
                  /\ IF ds.proc = "createQuery"
                     THEN ds.run.req.input = input
                     ELSE ds.run.req.input =
                              SpreadWithCursor(input,
                                  IF ds.run.arg \notin {Null, Undefined} THEN ds.run.arg
                                  ELSE OptGet(CurrentValue(ds.opts), "initialCursor"))

\* createQuery was called with an input store holding 1, the store was set to
\* 2, and the data source then asked the RPC client with input 2; the binding
\* constructor ran once.
C25_Witness ==
    /\ ds.proc = "createQuery"
    /\ ds.input = Writable(Num(2))
    /\ ds.constructed = 1
    /\ ds.run.state = "settled"
    /\ ds.run.req.input = Num(2)
    /\ ds.options.queryKey = <<<<"users", "getById">>, [input |-> Num(2), type |-> Str("query")]>>

\* C26: whenever the RPC client's promise for a request of a data source
\* (queryFn or mutationFn) has settled, what the data source returned has
\* settled the same way with the same value: a rejection of client.query or
\* client.mutation is a rejection of the data source with that error.
C26_TransparentErrors ==
    ds.run.state = "settled" =>
        /\ ds.run.result.state = ds.run.rpc.state
        /\ ds.run.result.value = ds.run.rpc.value
        /\ ds.run.rpc.state = "rejected" => ds.run.result = [state |-> "rejected", value |-> RpcError]

\* The data source of a createMutation call was run and client.mutation
\* rejected: the data source rejected with the client's error.
C26_Witness ==
    /\ ds.proc = "createMutation"
    /\ ds.run.state = "settled"
    /\ ds.run.req.method = "mutation"
    /\ ds.run.rpc.state = "rejected"
    /\ ds.run.result = [state |-> "rejected", value |-> RpcError]

\* names of routers and procedures of an application whose router has
\* children called client, fetch and createQuery
RouterNames == {"users", "getById", "client", "fetch", "createQuery"}

\* C28: every name of the application's router is navigated as a path segment
\* by both proxies, also when it coincides with a reserved name: reading it on
\* a proxy at path P gives a proxy of the same kind at P followed by the name.
C28_ReservedNamesNavigable ==
    (px.op = "get" /\ px.key \in RouterNames) =>
        px.got = ProxyAt(px.on.kind, px.on.path \o <<px.key>>)

----------------------------------------------------------------------------
(***************************************************************************)
(* Repeated factory invocations (SpecRes)                                  *)
(***************************************************************************)
\* C29: whenever the factory of a createServer* call was last invoked with no
\* arguments, the binding it made is on the keys of the server call (the keys
\* that were prefetched), whatever earlier invocations were given.
C29_NoArgBindsPrefetched ==
    (fac.pc = "bound" /\ fac.args = <<>>) =>
        /\ Len(fac.options) = Len(srv.queries)
        /\ \A i \in 1..Len(fac.options) :
               fac.options[i].queryKey = srv.queries[i].queryKey

----------------------------------------------------------------------------
(***************************************************************************)
(* Store detection (SpecDs)                                                *)
(***************************************************************************)
\* C30: no call of createQuery, createInfiniteQuery or of a createServer*
\* factory throws out of isSvelteStore; a call whose input is null is bound
\* with the key [path, { input: null, type }].
C30_StoreDetectionTotal ==
    /\ ds.thrown = "none"
    /\ (ds.proc \in {"createQuery", "createInfiniteQuery"} \cup ServerProcs
        /\ ds.input = Null /\ ds.opts.t # "store"
        /\ ds.pc \notin {"prefetching", "server"}) =>
           /\ ds.pc = "bound"
           /\ ds.options.queryKey =
                  <<ds.path, [input |-> Null,
                              type |-> IF ds.proc \in {"createQuery", "createServerQuery"}
                                       THEN Str("query") ELSE Str("infinite")]>>

============================================================================
